---- MODULE Spec2Model ----
(***************************************************************************)
(* Red-black tree map of MikuroXina/rb_tree: RbTreeMap (src/map.rs) over   *)
(* Root (src/node.rs), rebalanced by rotate / balance_after_insert /       *)
(* balance_after_remove working on a root slot (src/balance.rs).           *)
(*                                                                         *)
(* A node handle (NodeRef, a raw pointer) is an address in 1..MaxNodes.    *)
(* The heap maps every address to the Node stored there; a deallocated     *)
(* address holds DeadNode.  NodeRef::new is an allocator: it returns an    *)
(* address that is not in use.  The allocator modelled here returns        *)
(* address k for key k when that address is free and the lowest free       *)
(* overflow address (above MaxKey) otherwise.                              *)
(*                                                                         *)
(* Every operation is written as a sequence of steps over a machine record *)
(* [h, root, len, st]: h the heap, root and len the two fields of Root,    *)
(* st the control outcome ("ok", "panic" for an unwinding panic, "hang"    *)
(* for a loop that never ends).  A step applied to a machine that is not   *)
(* "ok" leaves it as it is, which is how a panic skips the rest of the     *)
(* function.  debug is the build profile: debug_assert! panics when it is  *)
(* TRUE and is compiled out when it is FALSE.                              *)
(***************************************************************************)
EXTENDS Integers, Sequences, FiniteSets, TLC

\* ---------------------------------------------------------------- bounds
MaxKey == 5
MaxVal == 2
Extra == 1
MaxOps == 6

Keys == 1..MaxKey
Vals == 1..MaxVal
MaxNodes == MaxKey + Extra
Ids == 1..MaxNodes
Nil == 0
Fuel == MaxNodes + 1
LoopFuel == 4 * MaxNodes + 4

VARIABLES heap, root, len, status, debug, abs, op, ret, steps,
          phase, itr, out, bounds, nav, seen, other, owned

\* the borrow of the map (phase), the iterator that holds it (itr), what
\* its calls have returned so far (out), the bounds given to range, the
\* navigator of a DrainFilter (nav) and the calls it has made of its
\* predicate (seen), and a second map with the abstract map it is
\* expected to hold (other), and the nodes that a map owned when it was
\* moved into an IntoIter (owned)
iterVars == <<phase, itr, out, bounds, nav, seen, other, owned>>

vars == <<heap, root, len, status, debug, abs, op, ret, steps,
          phase, itr, out, bounds, nav, seen, other, owned>>

\* ------------------------------------------------------------ node memory
DeadNode ==
    [alive |-> FALSE, key |-> 0, value |-> 0, color |-> "Red",
     parent |-> Nil, left |-> Nil, right |-> Nil]

\* Option<(K, V)>: None, or Some((key, value)); an Option<V> has key 0
None == [some |-> FALSE, key |-> 0, value |-> 0]

Some(k, v) == [some |-> TRUE, key |-> k, value |-> v]

Not(idx) == IF idx = "Left" THEN "Right" ELSE "Left"

Panic(m) == [m EXCEPT !.st = "panic"]

Hang(m) == [m EXCEPT !.st = "hang"]

\* a failed debug_assert! panics in a debug build and is absent otherwise
debug_assert(m, cond) ==
    IF m.st = "ok" /\ debug /\ ~cond THEN Panic(m) ELSE m

AllocAddr(h, k) ==
    IF ~h[k].alive THEN k
    ELSE LET free == {i \in (MaxKey + 1)..MaxNodes : ~h[i].alive}
         IN IF free = {} THEN Nil
            ELSE CHOOSE i \in free : \A j \in free : i <= j

new(m, n, k, v) ==
    IF m.st # "ok" THEN m
    ELSE [m EXCEPT !.h[n] = [alive |-> TRUE, key |-> k, value |-> v,
                             color |-> "Red", parent |-> Nil,
                             left |-> Nil, right |-> Nil]]

deallocate(m, n) ==
    IF m.st # "ok" THEN m ELSE [m EXCEPT !.h[n] = DeadNode]

make_root(m, n) ==
    IF m.st # "ok" THEN m
    ELSE [m EXCEPT !.h[n].parent = Nil, !.root = n]

set_color(m, n, c) ==
    IF m.st # "ok" THEN m ELSE [m EXCEPT !.h[n].color = c]

is_red(h, n) == h[n].color = "Red"

is_black(h, n) == ~is_red(h, n)

parent(h, n) == h[n].parent

child(h, n, idx) == IF idx = "Left" THEN h[n].left ELSE h[n].right

index_on_parent(h, n) ==
    IF h[n].parent = Nil THEN "None"
    ELSE IF h[h[n].parent].left = n THEN "Left" ELSE "Right"

grandparent(h, n) ==
    IF h[n].parent = Nil THEN Nil ELSE h[h[n].parent].parent

sibling(h, n) ==
    IF index_on_parent(h, n) = "None" THEN Nil
    ELSE child(h, h[n].parent, Not(index_on_parent(h, n)))

uncle(h, n) ==
    IF h[n].parent = Nil THEN Nil ELSE sibling(h, h[n].parent)

clear_child(m, self, idx) ==
    IF m.st # "ok" THEN m
    ELSE LET c == child(m.h, self, idx)
             h1 == IF c # Nil THEN [m.h EXCEPT ![c].parent = Nil] ELSE m.h
         IN IF c = Nil THEN Panic(m)
            ELSE IF idx = "Left"
                 THEN [m EXCEPT !.h = [h1 EXCEPT ![self].left = Nil]]
                 ELSE [m EXCEPT !.h = [h1 EXCEPT ![self].right = Nil]]

set_child(m, self, idx, new_child) ==
    IF m.st # "ok" THEN m
    ELSE IF debug /\ new_child = self THEN Panic(m)
    ELSE LET h1 == IF new_child # Nil
                   THEN [m.h EXCEPT ![new_child].parent = self]
                   ELSE m.h
         IN IF idx = "Left"
            THEN [m EXCEPT !.h = [h1 EXCEPT ![self].left = new_child]]
            ELSE [m EXCEPT !.h = [h1 EXCEPT ![self].right = new_child]]

\* NodeRef::search: "found"/"vacant" with the node and the side, or
\* "hang" when the descent never leaves a cycle of child links.
RECURSIVE search(_, _, _, _)
search(h, n, k, fuel) ==
    IF fuel = 0 THEN [res |-> "hang", node |-> n, idx |-> "None"]
    ELSE IF k = h[n].key THEN [res |-> "found", node |-> n, idx |-> "None"]
    ELSE LET idx == IF k < h[n].key THEN "Left" ELSE "Right"
         IN IF child(h, n, idx) = Nil
            THEN [res |-> "vacant", node |-> n, idx |-> idx]
            ELSE search(h, child(h, n, idx), k, fuel - 1)

RECURSIVE min_child(_, _, _)
min_child(h, n, fuel) ==
    IF fuel = 0 THEN Nil
    ELSE IF h[n].left = Nil THEN n ELSE min_child(h, h[n].left, fuel - 1)

RECURSIVE max_child(_, _, _)
max_child(h, n, fuel) ==
    IF fuel = 0 THEN Nil
    ELSE IF h[n].right = Nil THEN n ELSE max_child(h, h[n].right, fuel - 1)

\* ------------------------------------------------------------- rebalancer
\* the debug assertions that close rotate, on the relinked machine m
rotate_asserts(m, target, pivot, pivot_idx, be_moved) ==
    debug_assert(m,
        /\ IF index_on_parent(m.h, pivot) # "None"
           THEN child(m.h, parent(m.h, pivot),
                      index_on_parent(m.h, pivot)) = pivot
           ELSE m.root = pivot
        /\ child(m.h, pivot, Not(pivot_idx)) = target
        /\ parent(m.h, target) = pivot
        /\ child(m.h, target, pivot_idx) = be_moved)

\* a rotation that forgets its last link: target keeps pivot as its child
\* and be_moved stays under pivot
rotate_without_be_moved(m, target, pivot_idx) ==
    IF m.st # "ok" THEN m
    ELSE IF child(m.h, target, pivot_idx) = Nil THEN Panic(m)
    ELSE IF index_on_parent(m.h, target) # "None"
    THEN set_child(set_child(clear_child(m, parent(m.h, target),
                                         index_on_parent(m.h, target)),
                             parent(m.h, target),
                             index_on_parent(m.h, target),
                             child(m.h, target, pivot_idx)),
                   child(m.h, target, pivot_idx), Not(pivot_idx), target)
    ELSE set_child(make_root(m, child(m.h, target, pivot_idx)),
                   child(m.h, target, pivot_idx), Not(pivot_idx), target)

rotate(m, target, pivot_idx) ==
    IF m.st # "ok" THEN m
    ELSE LET pivot == child(m.h, target, pivot_idx)
         IN IF pivot = Nil THEN Panic(m)
            ELSE
            LET be_moved == child(m.h, pivot, Not(pivot_idx))
                idx == index_on_parent(m.h, target)
                par == parent(m.h, target)
                m1 == IF idx # "None"
                      THEN set_child(clear_child(m, par, idx), par, idx, pivot)
                      ELSE make_root(m, pivot)
                m2 == set_child(m1, pivot, Not(pivot_idx), target)
                m3 == set_child(m2, target, pivot_idx, be_moved)
            IN rotate_asserts(m3, target, pivot, pivot_idx, be_moved)

\* the last step without its two set_color calls: the rotation alone
rotate_without_recolor(m, target) ==
    IF m.st # "ok" THEN m
    ELSE IF parent(m.h, target) = Nil \/ grandparent(m.h, target) = Nil
    THEN Panic(m)
    ELSE rotate(m, grandparent(m.h, target), index_on_parent(m.h, target))

\* the last step of balance_after_insert: target is an outer grandchild,
\* its parent is red and its uncle is black
recolor_and_rotate(m, target) ==
    IF m.st # "ok" THEN m
    ELSE IF parent(m.h, target) = Nil \/ grandparent(m.h, target) = Nil
    THEN Panic(m)
    ELSE rotate(set_color(set_color(m, parent(m.h, target), "Black"),
                          grandparent(m.h, target), "Red"),
                grandparent(m.h, target), index_on_parent(m.h, target))

RECURSIVE balance_after_insert(_, _, _)
balance_after_insert(m, target, fuel) ==
    IF m.st # "ok" THEN m
    ELSE IF fuel = 0 THEN Hang(m)
    ELSE
    LET h == m.h
        p == parent(h, target)
    IN IF p = Nil \/ is_black(h, p) THEN m
       ELSE IF grandparent(h, target) = Nil THEN set_color(m, p, "Black")
       ELSE IF uncle(h, target) # Nil /\ is_red(h, uncle(h, target))
       THEN LET g == grandparent(h, target)
                m1 == set_color(m, p, "Black")
                m2 == set_color(m1, uncle(h, target), "Black")
                m3 == set_color(m2, g, "Red")
            IN balance_after_insert(m3, g, fuel - 1)
       ELSE
       IF index_on_parent(h, p) # index_on_parent(h, target)
       THEN recolor_and_rotate(rotate(m, p, index_on_parent(h, target)), p)
       ELSE recolor_and_rotate(m, target)

\* the colors set after the rotation when the distant nephew is red
recolor_distant(m, par, sib, distant) ==
    IF m.st # "ok" THEN m
    ELSE IF sib = Nil THEN Panic(m)
    ELSE set_color(set_color(set_color(m, sib, m.h[par].color),
                             par, "Black"),
                   distant, "Black")

RECURSIVE bar_loop(_, _, _, _, _, _, _)
RECURSIVE bar_continue(_, _, _, _, _)

\* the loop goes on with sib as the sibling and its children as nephews
bar_continue(m, idx, par, sib, fuel) ==
    IF m.st # "ok" THEN m
    ELSE bar_loop(m, idx, par, sib, child(m.h, sib, idx),
                  child(m.h, sib, Not(idx)), fuel)

\* a round that changes nothing and goes on to the next
bar_idle(m, idx, par, sib, close, distant, fuel) ==
    IF m.st # "ok" THEN m
    ELSE IF fuel = 0 THEN Hang(m)
    ELSE bar_loop(m, idx, par, sib, close, distant, fuel - 1)

bar_loop(m, idx, par, sib, close, distant, fuel) ==
    IF m.st # "ok" THEN m
    ELSE IF fuel = 0 THEN Hang(m)
    ELSE
    LET h == m.h
    IN IF sib # Nil /\ is_red(h, sib)
       THEN \* the sibling is red
            LET m1 == rotate(m, par, Not(idx))
                m2 == set_color(m1, par, "Red")
                m3 == set_color(m2, sib, "Black")
            IN IF close = Nil THEN Panic(m3)
               ELSE bar_continue(m3, idx, par, close, fuel - 1)
       ELSE IF distant # Nil /\ is_red(h, distant)
       THEN \* the sibling is black and the distant nephew is red
            recolor_distant(rotate(m, par, Not(idx)), par, sib, distant)
       ELSE IF close # Nil /\ is_red(h, close)
       THEN \* the sibling is black and the close nephew is red
            IF sib = Nil THEN Panic(m)
            ELSE LET m1 == rotate(m, sib, idx)
                     m2 == set_color(m1, sib, "Red")
                     m3 == set_color(m2, close, "Black")
                 IN bar_loop(m3, idx, par, close, close, sib, fuel - 1)
       ELSE IF is_red(h, par)
       THEN IF sib = Nil THEN Panic(m)
            ELSE set_color(set_color(m, sib, "Red"), par, "Black")
       ELSE \* the parent, the sibling and the nephews are all black
            IF sib = Nil THEN Panic(m)
            ELSE IF parent(h, par) # Nil
            THEN bar_loop(set_color(m, sib, "Red"), idx, parent(h, par),
                          sib, close, distant, fuel - 1)
            ELSE set_color(m, sib, "Red")

\* balance_after_remove with at most fuel rounds of its loop
bar_start(m, target, fuel) ==
    IF m.st # "ok" THEN m
    ELSE
    LET h == m.h
        m0 == debug_assert(m, /\ parent(h, target) # Nil
                              /\ is_black(h, target)
                              /\ h[target].left = Nil
                              /\ h[target].right = Nil)
    IN IF m0.st # "ok" THEN m0
       ELSE IF parent(h, target) = Nil THEN Panic(m0)
       ELSE
       LET idx == index_on_parent(h, target)
           par == parent(h, target)
           sib == child(h, par, Not(idx))
           close == IF sib = Nil THEN Nil ELSE child(h, sib, idx)
           distant == IF sib = Nil THEN Nil ELSE child(h, sib, Not(idx))
           m1 == clear_child(m0, par, idx)
       IN bar_loop(m1, idx, par, sib, close, distant, fuel)

balance_after_remove(m, target) == bar_start(m, target, LoopFuel)

\* ------------------------------------------------------------------ Root
\* self.len += 1, when the call got that far
inc_len(m) ==
    IF m.st # "ok" THEN m ELSE [m EXCEPT !.len = m.len + 1]

\* Root::insert_node, with n the address the allocator gives to a new node
insert_at(m, k, v, n) ==
    IF m.root = Nil
    THEN [m |-> [new(m, n, k, v) EXCEPT !.root = n, !.len = m.len + 1],
          ret |-> None]
    ELSE
    LET s == search(m.h, m.root, k, Fuel)
    IN IF s.res = "hang" THEN [m |-> Hang(m), ret |-> None]
       ELSE IF s.res = "found"
       THEN [m |-> [m EXCEPT !.h[s.node].value = v],
             ret |-> Some(k, m.h[s.node].value)]
       ELSE
       LET m1 == new(m, n, k, v)
           m2 == debug_assert(m1, child(m1.h, s.node, s.idx) = Nil)
           m3 == set_child(m2, s.node, s.idx, n)
       IN [m |-> inc_len(balance_after_insert(m3, n, Fuel)), ret |-> None]

insert_node(m, k, v) == insert_at(m, k, v, AllocAddr(m.h, k))

\* the two-children branch of remove_node: max_in_left is linked into
\* to_remove's place
replace_with_max_in_left(m, to_remove) ==
    LET h == m.h
        left == h[to_remove].left
        right == h[to_remove].right
        max_in_left == max_child(h, left, Fuel)
    IN IF max_in_left = Nil THEN Hang(m)
       ELSE
       LET redundant == h[max_in_left].left
           midx == index_on_parent(h, max_in_left)
       IN IF midx = "None" THEN Panic(m)
          ELSE
          LET m1 == set_child(m, parent(h, max_in_left), midx, redundant)
              tidx == IF m1.st = "ok"
                      THEN index_on_parent(m1.h, to_remove) ELSE "None"
              m2 == IF m1.st # "ok" THEN m1
                    ELSE IF tidx # "None"
                    THEN set_child(m1, parent(m1.h, to_remove), tidx,
                                   max_in_left)
                    ELSE [m1 EXCEPT !.root = max_in_left]
              m3 == set_child(m2, max_in_left, "Left", left)
          IN set_child(m3, max_in_left, "Right", right)

\* usize subtraction: overflow panics in a debug build and wraps otherwise;
\* a wrapped length is written as its representative modulo 2^64 next to 0
dec_len(m) ==
    IF m.st # "ok" THEN m
    ELSE IF m.len = 0 /\ debug THEN Panic(m)
    ELSE [m EXCEPT !.len = m.len - 1]

\* remove_node after its two-children branch: to_remove is taken off the
\* tree according to its color and its child
unlink(m, to_remove) ==
    IF m.st # "ok" THEN m
    ELSE
    LET h1 == m.h
        idx == index_on_parent(h1, to_remove)
        par == parent(h1, to_remove)
        red_child == IF h1[to_remove].left # Nil
                     THEN h1[to_remove].left
                     ELSE h1[to_remove].right
    IN IF is_red(h1, to_remove)
       THEN IF debug /\ ~(h1[to_remove].left = Nil /\ h1[to_remove].right = Nil)
            THEN Panic(m)
            ELSE IF idx = "None" THEN Panic(m)
            ELSE clear_child(m, par, idx)
       ELSE IF red_child # Nil
       THEN LET a == debug_assert(m, /\ is_red(h1, red_child)
                                     /\ h1[red_child].left = Nil
                                     /\ h1[red_child].right = Nil)
                b == IF idx # "None"
                     THEN set_child(a, par, idx, red_child)
                     ELSE make_root(a, red_child)
            IN set_color(b, red_child, "Black")
       ELSE balance_after_remove(m, to_remove)

\* Some(to_remove.deallocate()): the entry leaves with its node
take(m, to_remove) ==
    IF m.st # "ok" THEN [m |-> m, ret |-> None]
    ELSE [m |-> deallocate(m, to_remove),
          ret |-> Some(m.h[to_remove].key, m.h[to_remove].value)]

remove_node(m, k) ==
    IF m.root = Nil THEN [m |-> m, ret |-> None]
    ELSE
    LET s == search(m.h, m.root, k, Fuel)
    IN IF s.res = "hang" THEN [m |-> Hang(m), ret |-> None]
       ELSE IF s.res = "vacant" THEN [m |-> m, ret |-> None]
       ELSE
       LET to_remove == s.node
           m0 == dec_len(m)
       IN IF m0.st # "ok" THEN [m |-> m0, ret |-> None]
          ELSE IF to_remove = m0.root /\ m0.h[to_remove].left = Nil
                  /\ m0.h[to_remove].right = Nil
          THEN [m |-> deallocate([m0 EXCEPT !.root = Nil], to_remove),
                ret |-> Some(m0.h[to_remove].key, m0.h[to_remove].value)]
          ELSE
          take(unlink(IF m0.h[to_remove].left # Nil
                         /\ m0.h[to_remove].right # Nil
                      THEN replace_with_max_in_left(m0, to_remove)
                      ELSE m0,
                      to_remove),
               to_remove)

\* ------------------------------------------------------------- iteration
\* RefLeafRange::cut_left: one run of its loop, up to the node it returns;
\* out = Nil is None, hang = TRUE is a walk that never returns
RECURSIVE cut_left(_, _, _)
cut_left(h, it, fuel) ==
    IF it.start = Nil THEN [it |-> it, out |-> Nil, hang |-> FALSE]
    ELSE IF fuel = 0 THEN [it |-> it, out |-> Nil, hang |-> TRUE]
    ELSE
    LET curr == it.start
    IN IF it.start_prev = "Parent"
       THEN IF h[curr].left # Nil
            THEN cut_left(h, [it EXCEPT !.start = h[curr].left], fuel - 1)
            ELSE cut_left(h, [it EXCEPT !.start_prev = "LeftChild"], fuel - 1)
       ELSE IF it.start_prev = "LeftChild"
       THEN LET it2 ==
                  IF it.start = it.end /\ it.end_prev = "RightChild"
                  THEN [it EXCEPT !.start = Nil, !.end = Nil]
                  ELSE IF h[curr].right # Nil
                  THEN [it EXCEPT !.start_prev = "Parent",
                                  !.start = h[curr].right]
                  ELSE [it EXCEPT !.start_prev = "RightChild"]
            IN [it |-> it2, out |-> curr, hang |-> FALSE]
       ELSE LET it2 ==
                  [it EXCEPT !.start = h[curr].parent,
                             !.start_prev =
                                 IF index_on_parent(h, curr) = "Left"
                                 THEN "LeftChild" ELSE @]
            IN cut_left(h, it2, fuel - 1)

\* RefLeafRange::all and RbTreeMap::iter
iter(h, r, n) ==
    LET lo == IF r = Nil THEN Nil ELSE min_child(h, r, Fuel)
        hi == IF r = Nil THEN Nil ELSE max_child(h, r, Fuel)
    IN [start |-> lo, start_prev |-> "LeftChild",
        end |-> hi, end_prev |-> "RightChild", length |-> n,
        hang |-> r # Nil /\ (lo = Nil \/ hi = Nil)]

\* Iter::next repeated until it returns None: the items it yields
RECURSIVE collect(_, _, _, _)
collect(h, it, acc, fuel) ==
    IF it.hang \/ fuel = 0 THEN [items |-> acc, hang |-> TRUE]
    ELSE IF it.length = 0 THEN [items |-> acc, hang |-> FALSE]
    ELSE LET c == cut_left(h, [it EXCEPT !.length = @ - 1], LoopFuel)
         IN IF c.hang THEN [items |-> acc, hang |-> TRUE]
            ELSE IF c.out = Nil THEN [items |-> acc, hang |-> FALSE]
            ELSE collect(h, c.it,
                         Append(acc, <<h[c.out].key, h[c.out].value>>),
                         fuel - 1)

\* std::ops::Bound of a key, and the pair (start_bound, end_bound) of a
\* RangeBounds
Unbounded == [kind |-> "Unbounded", key |-> 0]

Included(k) == [kind |-> "Included", key |-> k]

Excluded(k) == [kind |-> "Excluded", key |-> k]

Bounds == {Unbounded} \cup {Included(k) : k \in Keys}
                      \cup {Excluded(k) : k \in Keys}

NoBounds == [lo |-> Unbounded, hi |-> Unbounded]

\* no DrainFilter is alive
NoNav ==
    [root |-> Nil, len |-> 0, current |-> Nil, prev |-> "LeftChild",
     to_remove_keys |-> <<>>]

\* no iterator is alive
NoIter ==
    [start |-> Nil, start_prev |-> "LeftChild",
     end |-> Nil, end_prev |-> "RightChild", length |-> 0, hang |-> FALSE]

IterItems == collect(heap, iter(heap, root, len), <<>>, LoopFuel)

\* ------------------------------------------------------------ RbTreeMap
Machine == [h |-> heap, root |-> root, len |-> len, st |-> "ok"]

CanAlloc(k) == AllocAddr(heap, k) # Nil

\* the map can be called: the previous call returned, and the run is
\* shorter than MaxOps calls
Ready == status = "ok" /\ steps < MaxOps

Insert(k, v) ==
    /\ Ready
    /\ CanAlloc(k)
    /\ \E r \in {insert_node(Machine, k, v)} :
          /\ heap' = r.m.h
          /\ root' = r.m.root
          /\ len' = r.m.len
          /\ status' = r.m.st
          /\ ret' = IF r.m.st = "ok" THEN r.ret ELSE None
    /\ op' = [name |-> "insert", key |-> k, value |-> v]
    /\ abs' = [abs EXCEPT ![k] = v]
    /\ steps' = steps + 1
    /\ UNCHANGED <<debug, iterVars>>

\* RbTreeMap::remove returns only the value of the removed entry
Remove(k) ==
    /\ Ready
    /\ \E r \in {remove_node(Machine, k)} :
          /\ heap' = r.m.h
          /\ root' = r.m.root
          /\ len' = r.m.len
          /\ status' = r.m.st
          /\ ret' = IF r.m.st = "ok" THEN [r.ret EXCEPT !.key = 0] ELSE None
    /\ op' = [name |-> "remove", key |-> k, value |-> 0]
    /\ abs' = [abs EXCEPT ![k] = 0]
    /\ steps' = steps + 1
    /\ UNCHANGED <<debug, iterVars>>

\* RbTreeMap::get: get_key_value(key).map(|(_, v)| v)
get_key_value(m, k) ==
    IF m.root = Nil THEN [m |-> m, ret |-> None]
    ELSE LET s == search(m.h, m.root, k, Fuel)
         IN IF s.res = "hang" THEN [m |-> Hang(m), ret |-> None]
            ELSE IF s.res = "found"
            THEN [m |-> m, ret |-> Some(m.h[s.node].key, m.h[s.node].value)]
            ELSE [m |-> m, ret |-> None]

Get(k) ==
    /\ Ready
    /\ \E r \in {get_key_value(Machine, k)} :
          /\ heap' = r.m.h
          /\ root' = r.m.root
          /\ len' = r.m.len
          /\ status' = r.m.st
          /\ ret' = IF r.m.st = "ok" THEN [r.ret EXCEPT !.key = 0] ELSE None
    /\ op' = [name |-> "get", key |-> k, value |-> 0]
    /\ steps' = steps + 1
    /\ UNCHANGED <<abs, debug, iterVars>>

\* RbTreeMap::contains_key: get(key).is_some(); the bool is ret.some
ContainsKey(k) ==
    /\ Ready
    /\ \E r \in {get_key_value(Machine, k)} :
          /\ heap' = r.m.h
          /\ root' = r.m.root
          /\ len' = r.m.len
          /\ status' = r.m.st
          /\ ret' = IF r.m.st = "ok"
                    THEN [r.ret EXCEPT !.key = 0, !.value = 0] ELSE None
    /\ op' = [name |-> "contains_key", key |-> k, value |-> 0]
    /\ steps' = steps + 1
    /\ UNCHANGED <<abs, debug, iterVars>>

Init ==
    /\ heap = [i \in Ids |-> DeadNode]
    /\ root = Nil
    /\ len = 0
    /\ status = "ok"
    /\ debug \in BOOLEAN
    /\ abs = [k \in Keys |-> 0]
    /\ op = [name |-> "new", key |-> 0, value |-> 0]
    /\ ret = None
    /\ steps = 0
    /\ phase = "map"
    /\ itr = NoIter
    /\ out = <<>>
    /\ bounds = NoBounds
    /\ nav = NoNav
    /\ seen = <<>>
    /\ other = [root |-> Nil, len |-> 0, abs |-> [k \in Keys |-> 0]]
    /\ owned = {}

Next ==
    \/ \E k \in Keys, v \in Vals : Insert(k, v)
    \/ \E k \in Keys : Remove(k)
    \/ \E k \in Keys : Get(k)
    \/ \E k \in Keys : ContainsKey(k)

Spec == Init /\ [][Next]_vars

\* ------------------------------------------------------------ iterators
\* RefLeafRange::cut_right: one run of its loop, up to the node it returns
RECURSIVE cut_right(_, _, _)
cut_right(h, it, fuel) ==
    IF it.end = Nil THEN [it |-> it, out |-> Nil, hang |-> FALSE]
    ELSE IF fuel = 0 THEN [it |-> it, out |-> Nil, hang |-> TRUE]
    ELSE
    LET curr == it.end
    IN IF it.end_prev = "Parent"
       THEN IF h[curr].right # Nil
            THEN cut_right(h, [it EXCEPT !.end = h[curr].right], fuel - 1)
            ELSE cut_right(h, [it EXCEPT !.end_prev = "RightChild"], fuel - 1)
       ELSE IF it.end_prev = "RightChild"
       THEN [it |-> IF it.start = it.end /\ it.start_prev = "LeftChild"
                    THEN [it EXCEPT !.start = Nil, !.end = Nil]
                    ELSE IF h[curr].left # Nil
                    THEN [it EXCEPT !.end_prev = "Parent",
                                    !.end = h[curr].left]
                    ELSE [it EXCEPT !.end_prev = "LeftChild"],
             out |-> curr, hang |-> FALSE]
       ELSE cut_right(h, [it EXCEPT !.end = h[curr].parent,
                                    !.start_prev =
                                        IF index_on_parent(h, curr) = "Right"
                                        THEN "RightChild" ELSE @],
                      fuel - 1)

\* Iter::next
next(h, it) ==
    IF it.length = 0 THEN [it |-> it, out |-> Nil, hang |-> FALSE]
    ELSE cut_left(h, [it EXCEPT !.length = @ - 1], LoopFuel)

\* Iter::next_back
next_back(h, it) ==
    IF it.length = 0 THEN [it |-> it, out |-> Nil, hang |-> FALSE]
    ELSE cut_right(h, [it EXCEPT !.length = @ - 1], LoopFuel)

\* n.key_value() of the node a call returned
key_value(h, n) == IF n = Nil THEN None ELSE Some(h[n].key, h[n].value)

\* RbTreeMap::iter: the iterator borrows the map
Iter ==
    /\ Ready
    /\ phase = "map"
    /\ \E i \in {iter(heap, root, len)} :
          /\ itr' = [i EXCEPT !.hang = FALSE]
          /\ status' = IF i.hang THEN "hang" ELSE "ok"
    /\ phase' = "iter"
    /\ out' = <<>>
    /\ op' = [name |-> "iter", key |-> 0, value |-> 0]
    /\ ret' = None
    /\ steps' = steps + 1
    /\ UNCHANGED <<heap, root, len, debug, owned, abs, bounds, nav, seen, other>>

\* what a call on the iterator leaves behind: r is the outcome of the
\* range's cut, back tells next_back from next
IterReturn(r, back) ==
    /\ itr' = r.it
    /\ status' = IF r.hang THEN "hang" ELSE "ok"
    /\ ret' = IF r.hang THEN None ELSE key_value(heap, r.out)
    /\ out' = IF r.hang THEN out
              ELSE Append(out, [back |-> back,
                                item |-> key_value(heap, r.out)])
    /\ op' = [name |-> IF back THEN "next_back" ELSE "next",
              key |-> 0, value |-> 0]
    /\ steps' = steps + 1
    /\ UNCHANGED <<heap, root, len, debug, owned, abs, phase, bounds, nav, seen,
                   other>>

IterNext ==
    /\ Ready
    /\ phase = "iter"
    /\ \E r \in {next(heap, itr)} : IterReturn(r, FALSE)

IterNextBack ==
    /\ Ready
    /\ phase = "iter"
    /\ \E r \in {next_back(heap, itr)} : IterReturn(r, TRUE)

IterStep ==
    \/ \E k \in Keys, v \in Vals : phase = "map" /\ Insert(k, v)
    \/ \E k \in Keys : phase = "map" /\ Remove(k)
    \/ Iter
    \/ IterNext
    \/ IterNextBack

IterSpec == Init /\ [][IterStep]_vars

\* ---------------------------------------------------------------- range
\* std::cmp::Ordering of a against b
cmp(a, b) == IF a < b THEN "Less" ELSE IF a = b THEN "Equal" ELSE "Greater"

\* the closure cmp of search_range for the start bound
cmp_lower(b, key) ==
    IF b.kind = "Included" THEN cmp(b.key, key)
    ELSE IF b.kind = "Excluded"
    THEN (IF cmp(b.key, key) = "Equal" THEN "Less" ELSE cmp(b.key, key))
    ELSE "Less"

\* the closure cmp of search_range for the end bound
cmp_upper(b, key) ==
    IF b.kind = "Included" THEN cmp(key, b.key)
    ELSE IF b.kind = "Excluded"
    THEN (IF cmp(key, b.key) = "Equal" THEN "Less" ELSE cmp(key, b.key))
    ELSE "Less"

is_le(o) == o \in {"Less", "Equal"}

\* the first loop of search_range; Nil when the walk never ends
RECURSIVE lower(_, _, _, _)
lower(h, b, current, fuel) ==
    IF fuel = 0 THEN Nil
    ELSE IF cmp_lower(b, h[current].key) = "Less"
    THEN IF h[current].left # Nil
            /\ is_le(cmp_lower(b, h[h[current].left].key))
         THEN lower(h, b, h[current].left, fuel - 1)
         ELSE current
    ELSE IF cmp_lower(b, h[current].key) = "Equal" THEN current
    ELSE IF h[current].right # Nil
         THEN lower(h, b, h[current].right, fuel - 1)
         ELSE current

\* the second loop of search_range
RECURSIVE upper(_, _, _, _)
upper(h, b, current, fuel) ==
    IF fuel = 0 THEN Nil
    ELSE IF cmp_upper(b, h[current].key) = "Greater"
    THEN IF h[current].left # Nil
         THEN upper(h, b, h[current].left, fuel - 1)
         ELSE current
    ELSE IF cmp_upper(b, h[current].key) = "Equal" THEN current
    ELSE IF h[current].right # Nil
            /\ is_le(cmp_upper(b, h[h[current].right].key))
         THEN upper(h, b, h[current].right, fuel - 1)
         ELSE current

\* RefLeafRange::new over search_range: the range between the two nodes,
\* empty when the upper key is below the lower key
range_new(h, r, lo, hi) ==
    IF r = Nil THEN NoIter
    ELSE IF lower(h, lo, r, Fuel) = Nil \/ upper(h, hi, r, Fuel) = Nil
    THEN [NoIter EXCEPT !.hang = TRUE]
    ELSE IF h[upper(h, hi, r, Fuel)].key < h[lower(h, lo, r, Fuel)].key
    THEN NoIter
    ELSE [NoIter EXCEPT !.start = lower(h, lo, r, Fuel),
                        !.end = upper(h, hi, r, Fuel)]

\* RbTreeMap::range
Range(lo, hi) ==
    /\ Ready
    /\ phase = "map"
    /\ \E i \in {range_new(heap, root, lo, hi)} :
          /\ itr' = [i EXCEPT !.hang = FALSE]
          /\ status' = IF i.hang THEN "hang" ELSE "ok"
    /\ phase' = "range"
    /\ out' = <<>>
    /\ bounds' = [lo |-> lo, hi |-> hi]
    /\ op' = [name |-> "range", key |-> 0, value |-> 0]
    /\ ret' = None
    /\ steps' = steps + 1
    /\ UNCHANGED <<heap, root, len, debug, owned, abs, nav, seen, other>>

\* Range::next: the range's cut_left
RangeNext ==
    /\ Ready
    /\ phase = "range"
    /\ \E r \in {cut_left(heap, itr, LoopFuel)} : IterReturn(r, FALSE)

RangeStep ==
    \/ \E k \in Keys, v \in Vals : phase = "map" /\ Insert(k, v)
    \/ \E k \in Keys : phase = "map" /\ Remove(k)
    \/ \E lo \in Bounds, hi \in Bounds : Range(lo, hi)
    \/ RangeNext

RangeSpec == Init /\ [][RangeStep]_vars

\* --------------------------------------------------------- drain_filter
\* what a call of the predicate can do: return true, return false, panic
Preds == [Keys -> {"true", "false", "panic"}]

\* DrainFilterNavigator::new, the root taken out of the map
nav_new(h, r, n) ==
    [root |-> r, len |-> n,
     current |-> IF r = Nil THEN Nil ELSE min_child(h, r, Fuel),
     prev |-> "LeftChild", to_remove_keys |-> <<>>]

\* min_child never returns on a tree whose left links form a cycle
new_hangs(h, r) == r # Nil /\ min_child(h, r, Fuel) = Nil

\* the cursor of the navigator moved past curr, as the LeftChild branch of
\* next moves it before it calls the predicate
nav_advance(h, nv) ==
    IF h[nv.current].right # Nil
    THEN [nv EXCEPT !.prev = "Parent", !.current = h[nv.current].right]
    ELSE [nv EXCEPT !.prev = "RightChild"]

\* the call pred(k, v) on the entry of curr, as the log records it
pred_call(h, curr, pred) ==
    [key |-> h[curr].key, value |-> h[curr].value, res |-> pred[h[curr].key]]

\* DrainFilterNavigator::next: the navigator after the call, the log with
\* the calls of pred added, how the call ended (some, none, panic, hang)
\* and the node whose entry it yields
RECURSIVE nav_next(_, _, _, _, _)
\* a navigator that yields an entry and does not record its key
nav_next_unrecorded(h, nv, log, pred, fuel) ==
    IF nv.current = Nil
    THEN [nav |-> nv, seen |-> log, res |-> "none", node |-> Nil]
    ELSE IF fuel = 0
    THEN [nav |-> nv, seen |-> log, res |-> "hang", node |-> Nil]
    ELSE IF nv.prev = "Parent"
    THEN IF h[nv.current].left # Nil
         THEN nav_next(h, [nv EXCEPT !.current = h[nv.current].left],
                       log, pred, fuel - 1)
         ELSE nav_next(h, [nv EXCEPT !.prev = "LeftChild"],
                       log, pred, fuel - 1)
    ELSE IF nv.prev = "LeftChild"
    THEN IF pred[h[nv.current].key] = "true"
         THEN [nav |-> nav_advance(h, nv),
               seen |-> Append(log, pred_call(h, nv.current, pred)),
               res |-> "some", node |-> nv.current]
         ELSE IF pred[h[nv.current].key] = "panic"
         THEN [nav |-> nav_advance(h, nv),
               seen |-> Append(log, pred_call(h, nv.current, pred)),
               res |-> "panic", node |-> Nil]
         ELSE nav_next(h, nav_advance(h, nv),
                       Append(log, pred_call(h, nv.current, pred)),
                       pred, fuel - 1)
    ELSE nav_next(h, [nv EXCEPT !.current = h[nv.current].parent,
                                !.prev =
                                    IF index_on_parent(h, nv.current) = "Left"
                                    THEN "LeftChild" ELSE @],
                  log, pred, fuel - 1)

nav_next(h, nv, log, pred, fuel) ==
    IF nv.current = Nil
    THEN [nav |-> nv, seen |-> log, res |-> "none", node |-> Nil]
    ELSE IF fuel = 0
    THEN [nav |-> nv, seen |-> log, res |-> "hang", node |-> Nil]
    ELSE IF nv.prev = "Parent"
    THEN IF h[nv.current].left # Nil
         THEN nav_next(h, [nv EXCEPT !.current = h[nv.current].left],
                       log, pred, fuel - 1)
         ELSE nav_next(h, [nv EXCEPT !.prev = "LeftChild"],
                       log, pred, fuel - 1)
    ELSE IF nv.prev = "LeftChild"
    THEN IF pred[h[nv.current].key] = "true"
         THEN [nav |-> [nav_advance(h, nv) EXCEPT
                           !.to_remove_keys = Append(@, nv.current)],
               seen |-> Append(log, pred_call(h, nv.current, pred)),
               res |-> "some", node |-> nv.current]
         ELSE IF pred[h[nv.current].key] = "panic"
         THEN [nav |-> nav_advance(h, nv),
               seen |-> Append(log, pred_call(h, nv.current, pred)),
               res |-> "panic", node |-> Nil]
         ELSE nav_next(h, nav_advance(h, nv),
                       Append(log, pred_call(h, nv.current, pred)),
                       pred, fuel - 1)
    ELSE nav_next(h, [nv EXCEPT !.current = h[nv.current].parent,
                                !.prev =
                                    IF index_on_parent(h, nv.current) = "Left"
                                    THEN "LeftChild" ELSE @],
                  log, pred, fuel - 1)

\* the first loop of drop_nav: next until it returns None
RECURSIVE drain_rest(_, _, _)
drain_rest(h, r, pred) ==
    IF r.res = "some"
    THEN drain_rest(h, nav_next(h, r.nav, r.seen, pred, LoopFuel), pred)
    ELSE r

\* the second loop of drop_nav: remove_node on the navigator's root for
\* every key of to_remove_keys, each read through its reference
RECURSIVE remove_keys(_, _, _)
remove_keys(m, keys, i) ==
    IF i > Len(keys) \/ m.st # "ok" THEN m
    ELSE remove_keys(remove_node(m, m.h[keys[i]].key).m, keys, i + 1)

\* a drain_filter that leaves the root in the map while the navigator
\* walks it
DrainFilterInPlace ==
    /\ Ready
    /\ phase = "map"
    /\ nav' = nav_new(heap, root, len)
    /\ status' = IF new_hangs(heap, root) THEN "hang" ELSE "ok"
    /\ phase' = "drain"
    /\ out' = <<>>
    /\ seen' = <<>>
    /\ op' = [name |-> "drain_filter", key |-> 0, value |-> 0]
    /\ ret' = None
    /\ steps' = steps + 1
    /\ UNCHANGED <<heap, root, len, debug, owned, abs, itr, bounds, other>>

\* RbTreeMap::drain_filter
DrainFilter ==
    /\ Ready
    /\ phase = "map"
    /\ nav' = nav_new(heap, root, len)
    /\ status' = IF new_hangs(heap, root) THEN "hang" ELSE "ok"
    /\ root' = Nil
    /\ len' = 0
    /\ phase' = "drain"
    /\ out' = <<>>
    /\ seen' = <<>>
    /\ op' = [name |-> "drain_filter", key |-> 0, value |-> 0]
    /\ ret' = None
    /\ steps' = steps + 1
    /\ UNCHANGED <<heap, debug, owned, abs, itr, bounds, other>>

\* the predicate answers for the keys of the map only
PredOn(pred) == \A k \in Keys : abs[k] = 0 => pred[k] = "false"

\* DrainFilter::next; a panic of the predicate leaves the call, and the
\* DrainFilter is still there
DrainNext(pred) ==
    /\ Ready
    /\ phase = "drain"
    /\ PredOn(pred)
    /\ \E r \in {nav_next(heap, nav, seen, pred, LoopFuel)} :
          /\ nav' = r.nav
          /\ seen' = r.seen
          /\ status' = IF r.res = "hang" THEN "hang" ELSE "ok"
          /\ ret' = key_value(heap, r.node)
          /\ out' = IF r.res \in {"some", "none"}
                    THEN Append(out, [back |-> FALSE,
                                      item |-> key_value(heap, r.node)])
                    ELSE out
          /\ op' = [name |-> IF r.res = "panic" THEN "next_panic" ELSE "next",
                    key |-> 0, value |-> 0]
    /\ steps' = steps + 1
    /\ UNCHANGED <<heap, root, len, debug, owned, abs, phase, itr, bounds, other>>

\* the map the claims expect once the DrainFilter is gone: the entries the
\* predicate returned true for are removed
Drained(log) ==
    [k \in Keys |->
        IF \E i \in 1..Len(log) : log[i].key = k /\ log[i].res = "true"
        THEN 0 ELSE abs[k]]

\* the navigator's root with the keys removed, as a machine
nav_removed(h, nv) ==
    remove_keys([h |-> h, root |-> nv.root, len |-> nv.len, st |-> "ok"],
                nv.to_remove_keys, 1)

\* drop_nav where the first loop came to its end: the removals, then the
\* root brought back
DropRemoves(m) ==
    /\ heap' = m.h
    /\ root' = m.root
    /\ len' = m.len
    /\ status' = m.st

\* Drop for DrainFilter, drop_nav; a panic of the predicate leaves drop_nav
\* in its first loop, before the removals and before the root is brought
\* back
DrainDrop(pred) ==
    /\ Ready
    /\ phase = "drain"
    /\ PredOn(pred)
    /\ \E r \in {drain_rest(heap,
                            [nav |-> nav, seen |-> seen,
                             res |-> "some", node |-> Nil],
                            pred)} :
          /\ seen' = r.seen
          /\ abs' = Drained(r.seen)
          /\ op' = [name |-> IF r.res = "panic" THEN "drop_panic" ELSE "drop",
                    key |-> 0, value |-> 0]
          /\ IF r.res = "none"
             THEN \E m \in {nav_removed(heap, r.nav)} : DropRemoves(m)
             ELSE /\ status' = IF r.res = "hang" THEN "hang" ELSE "ok"
                  /\ UNCHANGED <<heap, root, len>>
    /\ nav' = NoNav
    /\ phase' = "map"
    /\ ret' = None
    /\ steps' = steps + 1
    /\ UNCHANGED <<debug, owned, itr, out, bounds, other>>

\* std::mem::forget of the DrainFilter: drop never runs, the navigator
\* and the root it holds are gone
DrainLeak ==
    /\ Ready
    /\ phase = "drain"
    /\ nav' = NoNav
    /\ phase' = "map"
    /\ abs' = [k \in Keys |-> 0]
    /\ op' = [name |-> "forget", key |-> 0, value |-> 0]
    /\ ret' = None
    /\ steps' = steps + 1
    /\ UNCHANGED <<heap, root, len, status, debug, owned, itr, out, bounds, seen,
                   other>>

DrainStep ==
    \/ \E k \in Keys, v \in Vals : phase = "map" /\ Insert(k, v)
    \/ \E k \in Keys : phase = "map" /\ Remove(k)
    \/ DrainFilter
    \/ \E pred \in Preds : DrainNext(pred)
    \/ \E pred \in Preds : DrainDrop(pred)
    \/ DrainLeak

DrainSpec == Init /\ [][DrainStep]_vars

\* the runs in which a DrainFilter is never dropped
LeakStep ==
    \/ \E k \in Keys, v \in Vals : phase = "map" /\ Insert(k, v)
    \/ \E k \in Keys : phase = "map" /\ Remove(k)
    \/ DrainFilter
    \/ \E pred \in Preds : DrainNext(pred)
    \/ DrainLeak

LeakSpec == Init /\ [][LeakStep]_vars

\* --------------------------------------------------------------- append
\* the machine of the second map
OtherMachine ==
    [h |-> heap, root |-> other.root, len |-> other.len, st |-> "ok"]

\* insert on the second map; phase "other" while the second map is built
InsertOther(k, v) ==
    /\ Ready
    /\ CanAlloc(k)
    /\ \E r \in {insert_node(OtherMachine, k, v)} :
          /\ heap' = r.m.h
          /\ other' = [root |-> r.m.root, len |-> r.m.len,
                       abs |-> [other.abs EXCEPT ![k] = v]]
          /\ status' = r.m.st
          /\ ret' = IF r.m.st = "ok" THEN r.ret ELSE None
    /\ op' = [name |-> "insert_other", key |-> k, value |-> v]
    /\ phase' = "other"
    /\ steps' = steps + 1
    /\ UNCHANGED <<root, len, abs, debug, owned, itr, out, bounds, nav, seen>>

\* remove on the second map
RemoveOther(k) ==
    /\ Ready
    /\ \E r \in {remove_node(OtherMachine, k)} :
          /\ heap' = r.m.h
          /\ other' = [root |-> r.m.root, len |-> r.m.len,
                       abs |-> [other.abs EXCEPT ![k] = 0]]
          /\ status' = r.m.st
          /\ ret' = IF r.m.st = "ok" THEN [r.ret EXCEPT !.key = 0] ELSE None
    /\ op' = [name |-> "remove_other", key |-> k, value |-> 0]
    /\ phase' = "other"
    /\ steps' = steps + 1
    /\ UNCHANGED <<root, len, abs, debug, owned, itr, out, bounds, nav, seen>>

\* the closure |_, _| true of append
AlwaysTrue == [k \in Keys |-> "true"]

\* self.insert(k, v) in the loop of append, for the entry the DrainFilter
\* yielded; "nomem" when the heap of the model has no address left for it
append_insert(m, nv, n) ==
    IF search(m.h, m.root, m.h[n].key, Fuel).res = "vacant"
       /\ AllocAddr(m.h, m.h[n].key) = Nil
    THEN [m |-> [m EXCEPT !.st = "nomem"], nav |-> nv]
    ELSE [m |-> insert_node(m, m.h[n].key, m.h[n].value).m, nav |-> nv]

\* the loop of append: next on the DrainFilter of other until None, an
\* insert into self for every entry
RECURSIVE append_loop(_), append_step(_, _)
append_loop(s) ==
    IF s.m.st # "ok" THEN s
    ELSE IF new_hangs(s.m.h, s.nav.root) /\ s.nav.current = Nil
    THEN [s EXCEPT !.m = Hang(s.m)]
    ELSE append_step(s.m, nav_next(s.m.h, s.nav, <<>>, AlwaysTrue, LoopFuel))

append_step(m, r) ==
    IF r.res = "some" THEN append_loop(append_insert(m, r.nav, r.node))
    ELSE IF r.res = "hang" THEN [m |-> Hang(m), nav |-> r.nav]
    ELSE [m |-> m, nav |-> r.nav]

\* what append expects: the entries of both maps, those of other first
Union(a, b) == [k \in Keys |-> IF b[k] # 0 THEN b[k] ELSE a[k]]

\* the end of append's loop: the DrainFilter is dropped, which removes the
\* yielded keys from the root it took and brings the root back to other
AppendDrop(s, d) ==
    /\ heap' = d.h
    /\ root' = s.m.root
    /\ len' = s.m.len
    /\ status' = IF s.m.st # "ok" THEN s.m.st ELSE d.st
    /\ other' = IF s.m.st = "ok" /\ d.st = "ok"
                THEN [root |-> d.root, len |-> d.len,
                      abs |-> [k \in Keys |-> 0]]
                ELSE [other EXCEPT !.abs = [k \in Keys |-> 0]]

\* the loop of append and the drop after it
AppendMove(s) ==
    /\ s.m.st # "nomem"
    /\ \E d \in {IF s.m.st = "ok"
                 THEN nav_removed(s.m.h, s.nav)
                 ELSE [h |-> s.m.h, root |-> Nil, len |-> 0, st |-> "ok"]} :
          AppendDrop(s, d)

\* RbTreeMap::append
append ==
    /\ Ready
    /\ IF other.root = Nil
       THEN UNCHANGED <<heap, root, len, status, other>>
       ELSE IF root = Nil
       THEN /\ root' = other.root
            /\ len' = other.len
            /\ other' = [root |-> Nil, len |-> 0, abs |-> [k \in Keys |-> 0]]
            /\ UNCHANGED <<heap, status>>
       ELSE \E s \in {append_loop([m |-> Machine,
                                   nav |-> nav_new(heap, other.root,
                                                   other.len)])} :
               AppendMove(s)
    /\ abs' = IF other.root = Nil THEN abs
              ELSE IF root = Nil THEN other.abs
              ELSE Union(abs, other.abs)
    /\ op' = [name |-> "append", key |-> 0, value |-> 0]
    /\ phase' = "map"
    /\ ret' = None
    /\ steps' = steps + 1
    /\ UNCHANGED <<debug, owned, itr, out, bounds, nav, seen>>

\* the first map is built, then the second, then the first is called
\* with the second
AppendStep ==
    \/ \E k \in Keys, v \in Vals : phase = "map" /\ Insert(k, v)
    \/ \E k \in Keys : phase = "map" /\ Remove(k)
    \/ \E k \in Keys, v \in Vals : InsertOther(k, v)
    \/ \E k \in Keys : RemoveOther(k)
    \/ append

AppendSpec == Init /\ [][AppendStep]_vars

\* ------------------------------------------------------------ into_iter
\* addresses reachable from n over child links
RECURSIVE Reach(_, _, _)
Reach(h, n, fuel) ==
    IF n = Nil \/ fuel = 0 THEN {}
    ELSE {n} \cup Reach(h, h[n].left, fuel - 1)
             \cup Reach(h, h[n].right, fuel - 1)

\* DyingLeafRange::new: the range takes the nodes of the map it consumes
into_iter(h, r, n) ==
    [start |-> IF r = Nil THEN Nil ELSE min_child(h, r, Fuel),
     start_prev |-> "LeftChild",
     end |-> IF r = Nil THEN Nil ELSE max_child(h, r, Fuel),
     end_prev |-> "RightChild", length |-> n, hang |-> FALSE]

\* min_child or max_child never returns, on a cycle of child links
into_hangs(h, r) ==
    r # Nil /\ (min_child(h, r, Fuel) = Nil \/ max_child(h, r, Fuel) = Nil)

\* what a call on the dying range leaves: the heap, the range, the entry
\* it returns, and st = "ub" when it touched a node it had freed
Cut(h, it, r, st) == [h |-> h, it |-> it, ret |-> r, st |-> st]

\* DyingLeafRange::cut_left: the node it ascends from is deallocated
RECURSIVE dying_cut_left(_, _, _)
dying_cut_left(h, it, fuel) ==
    IF it.start = Nil THEN Cut(h, it, None, "ok")
    ELSE IF fuel = 0 THEN Cut(h, it, None, "hang")
    ELSE IF ~h[it.start].alive THEN Cut(h, it, None, "ub")
    ELSE IF it.start_prev = "Parent"
    THEN IF h[it.start].left # Nil
         THEN dying_cut_left(h, [it EXCEPT !.start = h[it.start].left],
                             fuel - 1)
         ELSE dying_cut_left(h, [it EXCEPT !.start_prev = "LeftChild"],
                             fuel - 1)
    ELSE IF it.start_prev = "LeftChild"
    THEN Cut(h,
             IF it.start = it.end /\ it.end_prev = "RightChild"
             THEN [it EXCEPT !.start = Nil, !.end = Nil]
             ELSE IF h[it.start].right # Nil
             THEN [it EXCEPT !.start_prev = "Parent",
                             !.start = h[it.start].right]
             ELSE [it EXCEPT !.start_prev = "RightChild"],
             Some(h[it.start].key, h[it.start].value), "ok")
    ELSE dying_cut_left([h EXCEPT ![it.start] = DeadNode],
                        [it EXCEPT !.start = h[it.start].parent,
                                   !.start_prev =
                                       IF index_on_parent(h, it.start) = "Left"
                                       THEN "LeftChild" ELSE @],
                        fuel - 1)

\* DyingLeafRange::cut_right
RECURSIVE dying_cut_right(_, _, _)
dying_cut_right(h, it, fuel) ==
    IF it.end = Nil THEN Cut(h, it, None, "ok")
    ELSE IF fuel = 0 THEN Cut(h, it, None, "hang")
    ELSE IF ~h[it.end].alive THEN Cut(h, it, None, "ub")
    ELSE IF it.end_prev = "Parent"
    THEN IF h[it.end].right # Nil
         THEN dying_cut_right(h, [it EXCEPT !.end = h[it.end].right],
                              fuel - 1)
         ELSE dying_cut_right(h, [it EXCEPT !.end_prev = "RightChild"],
                              fuel - 1)
    ELSE IF it.end_prev = "RightChild"
    THEN Cut(h,
             IF it.start = it.end /\ it.start_prev = "LeftChild"
             THEN [it EXCEPT !.start = Nil, !.end = Nil]
             ELSE IF h[it.end].left # Nil
             THEN [it EXCEPT !.end_prev = "Parent", !.end = h[it.end].left]
             ELSE [it EXCEPT !.end_prev = "LeftChild"],
             Some(h[it.end].key, h[it.end].value), "ok")
    ELSE dying_cut_right([h EXCEPT ![it.end] = DeadNode],
                         [it EXCEPT !.end = h[it.end].parent,
                                    !.start_prev =
                                        IF index_on_parent(h, it.end) = "Right"
                                        THEN "RightChild" ELSE @],
                         fuel - 1)

\* IntoIter::next
into_next(h, it) ==
    IF it.length = 0 THEN Cut(h, it, None, "ok")
    ELSE dying_cut_left(h, [it EXCEPT !.length = @ - 1], LoopFuel)

\* IntoIter::next_back
into_next_back(h, it) ==
    IF it.length = 0 THEN Cut(h, it, None, "ok")
    ELSE dying_cut_right(h, [it EXCEPT !.length = @ - 1], LoopFuel)

\* Drop for IntoIter: for _ in self {}
RECURSIVE into_drop(_, _)
into_drop(c, fuel) ==
    IF c.st # "ok" THEN c
    ELSE IF fuel = 0 THEN [c EXCEPT !.st = "hang"]
    ELSE IF c.it.length = 0 THEN Cut(c.h, c.it, None, "ok")
    ELSE into_drop(into_next(c.h, c.it), fuel - 1)

\* RbTreeMap::into_iter: the map is moved into the iterator
IntoIter ==
    /\ Ready
    /\ phase = "map"
    /\ itr' = into_iter(heap, root, len)
    /\ status' = IF into_hangs(heap, root) THEN "hang" ELSE "ok"
    /\ owned' = Reach(heap, root, MaxNodes)
    /\ root' = Nil
    /\ len' = 0
    /\ phase' = "into"
    /\ out' = <<>>
    /\ op' = [name |-> "into_iter", key |-> 0, value |-> 0]
    /\ ret' = None
    /\ steps' = steps + 1
    /\ UNCHANGED <<heap, debug, abs, bounds, nav, seen, other>>

\* what a call on the IntoIter leaves behind
IntoReturn(c, back) ==
    /\ heap' = c.h
    /\ itr' = c.it
    /\ status' = c.st
    /\ ret' = IF c.st = "ok" THEN c.ret ELSE None
    /\ out' = IF c.st = "ok" THEN Append(out, [back |-> back, item |-> c.ret])
              ELSE out
    /\ op' = [name |-> IF back THEN "next_back" ELSE "next",
              key |-> 0, value |-> 0]
    /\ steps' = steps + 1
    /\ UNCHANGED <<root, len, debug, abs, phase, bounds, nav, seen, other,
                   owned>>

IntoNext ==
    /\ Ready
    /\ phase = "into"
    /\ \E c \in {into_next(heap, itr)} : IntoReturn(c, FALSE)

IntoNextBack ==
    /\ Ready
    /\ phase = "into"
    /\ \E c \in {into_next_back(heap, itr)} : IntoReturn(c, TRUE)

\* the IntoIter goes out of scope
IntoDrop ==
    /\ Ready
    /\ phase = "into"
    /\ \E c \in {into_drop(Cut(heap, itr, None, "ok"), LoopFuel)} :
          /\ heap' = c.h
          /\ itr' = c.it
          /\ status' = c.st
    /\ phase' = "dropped"
    /\ op' = [name |-> "drop", key |-> 0, value |-> 0]
    /\ ret' = None
    /\ steps' = steps + 1
    /\ UNCHANGED <<root, len, debug, abs, out, bounds, nav, seen, other, owned>>

\* the allocator of the fresh map: any free address
AllocAny(h, k) ==
    IF ~h[k].alive THEN k
    ELSE IF \A i \in Ids : h[i].alive THEN Nil
    ELSE CHOOSE i \in Ids : ~h[i].alive /\ \A j \in Ids : ~h[j].alive => i <= j

\* tree.insert(k, v) in the loop of from_iter, for the entry c.ret that
\* the iterator returned; "nomem" when the heap of the model is full
from_iter_insert(m, c) ==
    IF AllocAny(c.h, c.ret.key) = Nil
    THEN [m EXCEPT !.h = c.h, !.st = "nomem"]
    ELSE insert_at([m EXCEPT !.h = c.h], c.ret.key, c.ret.value,
                   AllocAny(c.h, c.ret.key)).m

\* RbTreeMap::from_iter on an IntoIter: an insert for every entry that
\* next returns, until it returns None
RECURSIVE from_iter(_, _, _), from_iter_step(_, _, _)
from_iter(m, it, fuel) ==
    IF m.st # "ok" THEN [m |-> m, it |-> it]
    ELSE IF fuel = 0 THEN [m |-> Hang(m), it |-> it]
    ELSE from_iter_step(m, into_next(m.h, it), fuel)

from_iter_step(m, c, fuel) ==
    IF c.st # "ok" THEN [m |-> [m EXCEPT !.h = c.h, !.st = c.st], it |-> c.it]
    ELSE IF ~c.ret.some THEN [m |-> [m EXCEPT !.h = c.h], it |-> c.it]
    ELSE from_iter(from_iter_insert(m, c), c.it, fuel - 1)

\* the collected map takes the place of the map that was moved; the
\* IntoIter is dropped when from_iter returns
Collected(s, c) ==
    /\ s.m.st # "nomem"
    /\ heap' = c.h
    /\ root' = s.m.root
    /\ len' = s.m.len
    /\ status' = c.st

\* m.into_iter().collect::<RbTreeMap<_, _>>()
Collect ==
    /\ Ready
    /\ phase = "map"
    /\ \E s \in {IF into_hangs(heap, root)
                 THEN [m |-> Hang(Machine), it |-> NoIter]
                 ELSE from_iter([h |-> heap, root |-> Nil, len |-> 0,
                                 st |-> "ok"],
                                into_iter(heap, root, len), LoopFuel)} :
          \E c \in {into_drop(Cut(s.m.h, s.it, None, s.m.st), LoopFuel)} :
             Collected(s, c)
    /\ op' = [name |-> "collect", key |-> 0, value |-> 0]
    /\ ret' = None
    /\ steps' = steps + 1
    /\ UNCHANGED <<debug, abs, iterVars>>

IntoStep ==
    \/ \E k \in Keys, v \in Vals : phase = "map" /\ Insert(k, v)
    \/ \E k \in Keys : phase = "map" /\ Remove(k)
    \/ IntoIter
    \/ IntoNext
    \/ IntoNextBack
    \/ IntoDrop
    \/ Collect

IntoSpec == Init /\ [][IntoStep]_vars

\* ------------------------------------------------- insert, then remove
\* the call that follows another one in the same run: it is made only
\* when the first returned
then_remove(m, k) ==
    IF m.st # "ok" THEN [m |-> m, ret |-> None] ELSE remove_node(m, k)

\* m.insert(k, v); m.remove(&k) for a key that m does not hold
InsertRemove(k, v) ==
    /\ Ready
    /\ steps + 1 < MaxOps
    /\ CanAlloc(k)
    /\ get_key_value(Machine, k) = [m |-> Machine, ret |-> None]
    /\ \E r \in {then_remove(insert_node(Machine, k, v).m, k)} :
          /\ heap' = r.m.h
          /\ root' = r.m.root
          /\ len' = r.m.len
          /\ status' = r.m.st
          /\ ret' = IF r.m.st = "ok" THEN [r.ret EXCEPT !.key = 0] ELSE None
    /\ op' = [name |-> "insert_remove", key |-> k, value |-> v]
    /\ abs' = [abs EXCEPT ![k] = 0]
    /\ steps' = steps + 2
    /\ UNCHANGED <<debug, iterVars>>

PairStep ==
    \/ \E k \in Keys, v \in Vals : Insert(k, v)
    \/ \E k \in Keys : Remove(k)
    \/ \E k \in Keys, v \in Vals : InsertRemove(k, v)

PairSpec == Init /\ [][PairStep]_vars

\* ------------------------------------------- RedBlackTree (src/src/lib.rs)
\* a call that touches a node after its deallocation has undefined
\* behaviour: st = "ub" stands for whatever the build then does
Ub(m) == [m EXCEPT !.st = "ub"]

\* RedBlackTree::search_node: self.root.unwrap().search(key)
RECURSIVE rbt_search(_, _, _, _)
rbt_search(h, n, k, fuel) ==
    IF fuel = 0 THEN [res |-> "hang", node |-> n, idx |-> "None"]
    ELSE IF ~h[n].alive THEN [res |-> "ub", node |-> n, idx |-> "None"]
    ELSE IF k = h[n].key THEN [res |-> "found", node |-> n, idx |-> "None"]
    ELSE IF child(h, n, IF k < h[n].key THEN "Left" ELSE "Right") = Nil
    THEN [res |-> "vacant", node |-> n,
          idx |-> IF k < h[n].key THEN "Left" ELSE "Right"]
    ELSE rbt_search(h, child(h, n, IF k < h[n].key THEN "Left" ELSE "Right"),
                    k, fuel - 1)

search_node(m, k) ==
    IF m.root = Nil THEN [res |-> "panic", node |-> Nil, idx |-> "None"]
    ELSE rbt_search(m.h, m.root, k, Fuel)

\* the outcome of a call whose search did not come back with a node
Lost(m, s) ==
    [m |-> IF s.res = "hang" THEN Hang(m)
           ELSE IF s.res = "ub" THEN Ub(m)
           ELSE IF s.res = "panic" THEN Panic(m) ELSE m,
     ret |-> None]

\* RedBlackTree::insert, with n the address of a new node
rbt_insert_found(m, k, v, n, s) ==
    IF s.res = "found"
    THEN [m |-> [m EXCEPT !.h[s.node].value = v],
          ret |-> Some(k, m.h[s.node].value)]
    ELSE IF s.res # "vacant" THEN Lost(m, s)
    ELSE [m |-> balance_after_insert(
                    set_child(debug_assert(inc_len(new(m, n, k, v)),
                                           child(m.h, s.node, s.idx) = Nil),
                              s.node, s.idx, n),
                    n, Fuel),
          ret |-> None]

rbt_insert(m, k, v, n) ==
    IF m.root = Nil
    THEN [m |-> [new(m, n, k, v) EXCEPT !.root = n, !.len = m.len + 1],
          ret |-> None]
    ELSE rbt_insert_found(m, k, v, n, search_node(m, k))

\* the two-children branch of RedBlackTree::remove_node: the colors and
\* the children of node and of max_in_left are exchanged, and the removal
\* goes on with max_in_left
rbt_exchange(m, node, max_in_left) ==
    IF max_in_left = Nil THEN [m |-> Hang(m), node |-> node]
    ELSE
    [m |-> set_color(
               set_child(
                   set_child(
                       set_color(
                           set_child(clear_child(m, node, "Right"),
                                     node, "Left", m.h[max_in_left].left),
                           node, m.h[max_in_left].color),
                       max_in_left, "Left", m.h[node].left),
                   max_in_left, "Right", m.h[node].right),
               max_in_left, m.h[node].color),
     node |-> max_in_left]

\* (idx, parent) = node.index_and_parent().unwrap();
\* parent.clear_child(idx); node.deallocate()
rbt_detach(m, node) ==
    IF m.st # "ok" THEN [m |-> m, ret |-> None]
    ELSE IF parent(m.h, node) = Nil THEN [m |-> Panic(m), ret |-> None]
    ELSE [m |-> deallocate(clear_child(m, parent(m.h, node),
                                       index_on_parent(m.h, node)),
                           node),
          ret |-> Some(m.h[node].key, m.h[node].value)]

\* the red child of a black node takes the place of the node, and the
\* removal goes on with the child
rbt_promote(m, node, red_child) ==
    IF m.st # "ok" THEN [m |-> m, node |-> node]
    ELSE IF red_child = Nil \/ is_black(m.h, red_child)
    THEN [m |-> m, node |-> node]
    ELSE IF parent(m.h, red_child) = Nil \/ parent(m.h, node) = Nil
    THEN [m |-> Panic(m), node |-> node]
    ELSE
    [m |-> set_child(
               set_color(
                   set_child(clear_child(m, node,
                                         index_on_parent(m.h, red_child)),
                             parent(m.h, node), index_on_parent(m.h, node),
                             red_child),
                   red_child, "Black"),
               red_child, index_on_parent(m.h, red_child), node),
     node |-> red_child]

\* RedBlackTree::remove_node from its first debug_assert on
rbt_remove_black(s) ==
    rbt_detach(balance_after_remove(s.m, s.node), s.node)

rbt_remove_rest(s) ==
    IF s.m.st # "ok" THEN [m |-> s.m, ret |-> None]
    ELSE IF debug /\ (s.m.h[s.node].left = Nil) # (s.m.h[s.node].right = Nil)
            /\ is_black(s.m.h, IF s.m.h[s.node].left # Nil
                               THEN s.m.h[s.node].left
                               ELSE s.m.h[s.node].right)
    THEN [m |-> Panic(s.m), ret |-> None]
    ELSE IF is_red(s.m.h, s.node)
    THEN rbt_detach(debug_assert(s.m, /\ s.m.h[s.node].left = Nil
                                      /\ s.m.h[s.node].right = Nil),
                    s.node)
    ELSE rbt_remove_black(
             rbt_promote(s.m, s.node,
                         IF s.m.h[s.node].left # Nil
                         THEN s.m.h[s.node].left ELSE s.m.h[s.node].right))

\* RedBlackTree::remove_node
rbt_remove_node(m, node) ==
    IF m.st # "ok" THEN [m |-> m, ret |-> None]
    ELSE IF m.len = 0
    THEN [m |-> deallocate(m, node),
          ret |-> Some(m.h[node].key, m.h[node].value)]
    ELSE IF m.h[node].left # Nil /\ m.h[node].right # Nil
    THEN rbt_remove_rest(rbt_exchange(m, node,
                                      max_child(m.h, m.h[node].left, Fuel)))
    ELSE rbt_remove_rest([m |-> m, node |-> node])

\* RedBlackTree::remove_entry
rbt_remove_found(m, s) ==
    IF s.res = "found" THEN rbt_remove_node(dec_len(m), s.node)
    ELSE Lost(m, s)

remove_entry(m, k) ==
    IF m.root = Nil THEN [m |-> m, ret |-> None]
    ELSE rbt_remove_found(m, search_node(m, k))

\* RedBlackTree::get_key_value and RedBlackTree::get_mut
rbt_lookup_found(m, s) ==
    IF s.res = "found"
    THEN [m |-> m, ret |-> Some(m.h[s.node].key, m.h[s.node].value)]
    ELSE Lost(m, s)

rbt_get_key_value(m, k) ==
    IF m.root = Nil THEN [m |-> m, ret |-> None]
    ELSE rbt_lookup_found(m, search_node(m, k))

get_mut(m, k) ==
    IF m.root = Nil THEN [m |-> m, ret |-> None]
    ELSE rbt_lookup_found(m, search_node(m, k))

\* what a call on the RedBlackTree leaves behind: r is the outcome, shown
\* is what of the entry the caller is given (its key, its value)
RbtReturn(r, name, k, v, shown) ==
    /\ heap' = r.m.h
    /\ root' = r.m.root
    /\ len' = r.m.len
    /\ status' = r.m.st
    /\ ret' = IF r.m.st # "ok" \/ ~r.ret.some THEN None
              ELSE [some |-> TRUE,
                    key |-> IF shown.key THEN r.ret.key ELSE 0,
                    value |-> IF shown.value THEN r.ret.value ELSE 0]
    /\ op' = [name |-> name, key |-> k, value |-> v]
    /\ steps' = steps + 1
    /\ UNCHANGED <<debug, iterVars>>

Entry == [key |-> TRUE, value |-> TRUE]

ValueOnly == [key |-> FALSE, value |-> TRUE]

RbtInsert(k, v) ==
    /\ Ready
    /\ CanAlloc(k)
    /\ abs' = [abs EXCEPT ![k] = v]
    /\ \E r \in {rbt_insert(Machine, k, v, AllocAddr(heap, k))} :
          RbtReturn(r, "insert", k, v, Entry)

RbtRemove(k) ==
    /\ Ready
    /\ abs' = [abs EXCEPT ![k] = 0]
    /\ \E r \in {remove_entry(Machine, k)} :
          RbtReturn(r, "remove", k, 0, ValueOnly)

RbtRemoveEntry(k) ==
    /\ Ready
    /\ abs' = [abs EXCEPT ![k] = 0]
    /\ \E r \in {remove_entry(Machine, k)} :
          RbtReturn(r, "remove_entry", k, 0, Entry)

RbtGet(k) ==
    /\ Ready
    /\ abs' = abs
    /\ \E r \in {rbt_get_key_value(Machine, k)} :
          RbtReturn(r, "get", k, 0, ValueOnly)

RbtGetMut(k) ==
    /\ Ready
    /\ abs' = abs
    /\ \E r \in {get_mut(Machine, k)} :
          RbtReturn(r, "get_mut", k, 0, ValueOnly)

RbtGetKeyValue(k) ==
    /\ Ready
    /\ abs' = abs
    /\ \E r \in {rbt_get_key_value(Machine, k)} :
          RbtReturn(r, "get_key_value", k, 0, Entry)

RbtStep ==
    \/ \E k \in Keys, v \in Vals : RbtInsert(k, v)
    \/ \E k \in Keys : RbtRemove(k)
    \/ \E k \in Keys : RbtRemoveEntry(k)
    \/ \E k \in Keys : RbtGet(k)
    \/ \E k \in Keys : RbtGetMut(k)
    \/ \E k \in Keys : RbtGetKeyValue(k)

RbtSpec == Init /\ [][RbtStep]_vars

\* ------------------------- RedBlackTree::drain_filter (src/src/drain.rs)
\* the node DrainFilter::next goes to from current: its right child, or
\* else its parent
right_or_parent(h, n) == IF h[n].right # Nil THEN h[n].right ELSE h[n].parent

\* next returns what remove_entry returned
rbt_drained(r, cur, log) ==
    [m |-> r.m, cur |-> cur, seen |-> log,
     ret |-> IF r.m.st = "ok" THEN r.ret ELSE None,
     res |-> IF r.m.st # "ok" THEN r.m.st
             ELSE IF r.ret.some THEN "some" ELSE "none"]

\* DrainFilter::next of the RedBlackTree: the tree after the call, the
\* cursor, the log with the calls of pred added, what the call returned
\* and how it ended (some, none, panic, hang, ub)
RECURSIVE rbt_drain_next(_, _, _, _, _)
rbt_drain_next(m, cur, log, pred, fuel) ==
    IF cur = Nil
    THEN [m |-> m, cur |-> Nil, seen |-> log, ret |-> None, res |-> "none"]
    ELSE IF fuel = 0
    THEN [m |-> Hang(m), cur |-> cur, seen |-> log, ret |-> None,
          res |-> "hang"]
    ELSE IF ~m.h[cur].alive
    THEN [m |-> Ub(m), cur |-> cur, seen |-> log, ret |-> None,
          res |-> "ub"]
    ELSE IF pred[m.h[cur].key] = "panic"
    THEN [m |-> m, cur |-> right_or_parent(m.h, cur),
          seen |-> Append(log, pred_call(m.h, cur, pred)),
          ret |-> None, res |-> "panic"]
    ELSE IF pred[m.h[cur].key] = "true"
    THEN rbt_drained(remove_entry(m, m.h[cur].key),
                     right_or_parent(m.h, cur),
                     Append(log, pred_call(m.h, cur, pred)))
    ELSE rbt_drain_next(m, right_or_parent(m.h, cur),
                        Append(log, pred_call(m.h, cur, pred)),
                        pred, fuel - 1)

\* Drop for DrainFilter: self.for_each(drop), next until it returns None
RECURSIVE rbt_drain_rest(_, _, _)
rbt_drain_rest(r, pred, fuel) ==
    IF r.res # "some" THEN r
    ELSE IF fuel = 0 THEN [r EXCEPT !.m = Hang(r.m), !.res = "hang"]
    ELSE rbt_drain_rest(rbt_drain_next(r.m, r.cur, r.seen, pred, LoopFuel),
                        pred, fuel - 1)

\* RedBlackTree::drain_filter: the cursor starts at first_node
RbtDrainFilter ==
    /\ Ready
    /\ phase = "map"
    /\ nav' = [NoNav EXCEPT
                  !.current = IF root = Nil \/ ~heap[root].alive THEN Nil
                              ELSE min_child(heap, root, Fuel)]
    /\ status' = IF root # Nil /\ ~heap[root].alive THEN "ub"
                 ELSE IF new_hangs(heap, root) THEN "hang" ELSE "ok"
    /\ phase' = "drain"
    /\ out' = <<>>
    /\ seen' = <<>>
    /\ op' = [name |-> "drain_filter", key |-> 0, value |-> 0]
    /\ ret' = None
    /\ steps' = steps + 1
    /\ UNCHANGED <<heap, root, len, debug, owned, abs, itr, bounds, other>>

\* what a call of next, or the drop, leaves of the tree
RbtDrainLeaves(r) ==
    /\ heap' = r.m.h
    /\ root' = r.m.root
    /\ len' = r.m.len
    /\ status' = r.m.st
    /\ seen' = r.seen
    /\ abs' = Drained(r.seen)

RbtDrainNext(pred) ==
    /\ Ready
    /\ phase = "drain"
    /\ PredOn(pred)
    /\ \E r \in {rbt_drain_next(Machine, nav.current, seen, pred, LoopFuel)} :
          /\ RbtDrainLeaves(r)
          /\ nav' = [nav EXCEPT !.current = r.cur]
          /\ ret' = r.ret
          /\ out' = IF r.res \in {"some", "none"}
                    THEN Append(out, [back |-> FALSE, item |-> r.ret])
                    ELSE out
          /\ op' = [name |-> IF r.res = "panic" THEN "next_panic" ELSE "next",
                    key |-> 0, value |-> 0]
    /\ steps' = steps + 1
    /\ UNCHANGED <<debug, owned, phase, itr, bounds, other>>

RbtDrainDrop(pred) ==
    /\ Ready
    /\ phase = "drain"
    /\ PredOn(pred)
    /\ \E r \in {rbt_drain_rest([m |-> Machine, cur |-> nav.current,
                                 seen |-> seen, ret |-> None,
                                 res |-> "some"],
                                pred, LoopFuel)} :
          /\ RbtDrainLeaves(r)
          /\ op' = [name |-> IF r.res = "panic" THEN "drop_panic" ELSE "drop",
                    key |-> 0, value |-> 0]
    /\ nav' = NoNav
    /\ phase' = "map"
    /\ ret' = None
    /\ steps' = steps + 1
    /\ UNCHANGED <<debug, owned, itr, out, bounds, other>>

RbtDrainStep ==
    \/ \E k \in Keys, v \in Vals : phase = "map" /\ RbtInsert(k, v)
    \/ RbtDrainFilter
    \/ \E pred \in Preds : RbtDrainNext(pred)
    \/ \E pred \in Preds : RbtDrainDrop(pred)

RbtDrainSpec == Init /\ [][RbtDrainStep]_vars

\* ------------------------------------------------------------ RbTreeSet
ITER_PERFORMANCE_TIPPING_SIZE_DIFF == 16

\* Option<&T> of an element: 0 is None
Pop(s) == IF s = <<>> THEN 0 ELSE Head(s)

Rest(s) == IF s = <<>> THEN s ELSE Tail(s)

\* the elements that the calls of next on a set::Iter in the state it
\* return, one after the other: the keys of the underlying map::Iter
keys(items) == [i \in 1..Len(items) |-> items[i][1]]

elements(h, it) == keys(collect(h, it, <<>>, LoopFuel).items)

\* the least and the greatest element of a set that is not empty
set_min(h, s) == h[min_child(h, s.root, Fuel)].key

set_max(h, s) == h[max_child(h, s.root, Fuel)].key

\* RbTreeSet::contains
contains(h, s, k) ==
    s.root # Nil /\ search(h, s.root, k, Fuel).res = "found"

\* the state of a Difference, an Intersection, a Union or a
\* SymmetricDifference: the two iterators by what they have yet to yield,
\* the set that is probed, the element of AtLeast, and what the MergeIter
\* has peeked
Inner(kind, a, b, s) ==
    [kind |-> kind, a |-> a, b |-> b, set |-> s, opt |-> 0,
     peeked |-> [side |-> "None", key |-> 0]]

NoSet == [root |-> Nil, len |-> 0]

\* RbTreeSet::difference
difference(h, a, b) ==
    IF a.root = Nil \/ b.root = Nil
    THEN Inner("Through", elements(h, iter(h, a.root, a.len)), <<>>, NoSet)
    ELSE IF set_min(h, a) > set_max(h, b) \/ set_max(h, a) < set_min(h, b)
    THEN Inner("Through", elements(h, iter(h, a.root, a.len)), <<>>, NoSet)
    ELSE IF set_min(h, a) = set_max(h, b)
    THEN Inner("Through",
               elements(h, next(h, iter(h, a.root, a.len)).it), <<>>, NoSet)
    ELSE IF set_max(h, a) = set_min(h, b)
    THEN Inner("Through",
               elements(h, next_back(h, iter(h, a.root, a.len)).it),
               <<>>, NoSet)
    ELSE IF a.len <= b.len \div ITER_PERFORMANCE_TIPPING_SIZE_DIFF
    THEN Inner("Search", elements(h, iter(h, a.root, a.len)), <<>>, b)
    ELSE Inner("Stitch", elements(h, iter(h, a.root, a.len)),
               elements(h, iter(h, b.root, b.len)), NoSet)

\* RbTreeSet::intersection
intersection(h, a, b) ==
    IF a.root = Nil \/ b.root = Nil
    THEN Inner("AtLeast", <<>>, <<>>, NoSet)
    ELSE IF set_min(h, a) > set_max(h, b) \/ set_max(h, a) < set_min(h, b)
    THEN Inner("AtLeast", <<>>, <<>>, NoSet)
    ELSE IF set_min(h, a) = set_max(h, b)
    THEN [Inner("AtLeast", <<>>, <<>>, NoSet) EXCEPT !.opt = set_min(h, a)]
    ELSE IF set_max(h, a) = set_min(h, b)
    THEN [Inner("AtLeast", <<>>, <<>>, NoSet) EXCEPT !.opt = set_max(h, a)]
    ELSE IF a.len <= b.len \div ITER_PERFORMANCE_TIPPING_SIZE_DIFF
    THEN Inner("Search", elements(h, iter(h, a.root, a.len)), <<>>, b)
    ELSE IF b.len <= a.len \div ITER_PERFORMANCE_TIPPING_SIZE_DIFF
    THEN Inner("Search", elements(h, iter(h, b.root, b.len)), <<>>, a)
    ELSE Inner("Stitch", elements(h, iter(h, a.root, a.len)),
               elements(h, iter(h, b.root, b.len)), NoSet)

\* RbTreeSet::union and RbTreeSet::symmetric_difference: MergeIter::new
merge_new(h, a, b) ==
    Inner("Merge", elements(h, iter(h, a.root, a.len)),
          elements(h, iter(h, b.root, b.len)), NoSet)

\* the loop of the Search strategy: the next element of the iterator that
\* the probed set holds (wanted) or does not hold
RECURSIVE search_next(_, _, _)
search_next(h, st, wanted) ==
    IF st.a = <<>> THEN [st |-> st, out |-> 0]
    ELSE IF contains(h, st.set, Head(st.a)) = wanted
    THEN [st |-> [st EXCEPT !.a = Tail(@)], out |-> Head(st.a)]
    ELSE search_next(h, [st EXCEPT !.a = Tail(@)], wanted)

\* the loop of Difference::next in the Stitch strategy
RECURSIVE difference_stitch(_, _)
difference_stitch(st, self_next) ==
    IF st.b = <<>> \/ self_next < Head(st.b)
    THEN [st |-> st, out |-> self_next]
    ELSE IF self_next > Head(st.b)
    THEN difference_stitch([st EXCEPT !.b = Tail(@)], self_next)
    ELSE IF st.a = <<>> THEN [st |-> st, out |-> 0]
    ELSE difference_stitch([st EXCEPT !.a = Tail(@), !.b = Tail(@)],
                           Head(st.a))

\* Difference::next
difference_next(h, st) ==
    IF st.a = <<>> THEN [st |-> st, out |-> 0]
    ELSE IF st.kind = "Stitch"
    THEN difference_stitch([st EXCEPT !.a = Tail(@)], Head(st.a))
    ELSE IF st.kind = "Search" THEN search_next(h, st, FALSE)
    ELSE [st |-> [st EXCEPT !.a = Tail(@)], out |-> Head(st.a)]

\* the loop of Intersection::next in the Stitch strategy
RECURSIVE intersection_stitch(_, _, _)
intersection_stitch(st, a_next, b_next) ==
    IF a_next = b_next THEN [st |-> st, out |-> a_next]
    ELSE IF a_next < b_next
    THEN IF st.a = <<>> THEN [st |-> st, out |-> 0]
         ELSE intersection_stitch([st EXCEPT !.a = Tail(@)], Head(st.a),
                                  b_next)
    ELSE IF st.b = <<>> THEN [st |-> st, out |-> 0]
    ELSE intersection_stitch([st EXCEPT !.b = Tail(@)], a_next, Head(st.b))

\* Intersection::next
intersection_next(h, st) ==
    IF st.kind = "AtLeast"
    THEN [st |-> [st EXCEPT !.opt = 0], out |-> st.opt]
    ELSE IF st.kind = "Search" THEN search_next(h, st, TRUE)
    ELSE IF st.a = <<>> THEN [st |-> st, out |-> 0]
    ELSE IF st.b = <<>> THEN [st |-> [st EXCEPT !.a = Tail(@)], out |-> 0]
    ELSE intersection_stitch([st EXCEPT !.a = Tail(@), !.b = Tail(@)],
                             Head(st.a), Head(st.b))

\* the end of MergeIter::nexts: of two elements that differ, the greater
\* one is kept as peeked
nexts_peek(st, a_next, b_next) ==
    IF a_next # 0 /\ b_next # 0 /\ a_next < b_next
    THEN [st |-> [st EXCEPT !.peeked = [side |-> "B", key |-> b_next]],
          a |-> a_next, b |-> 0]
    ELSE IF a_next # 0 /\ b_next # 0 /\ a_next > b_next
    THEN [st |-> [st EXCEPT !.peeked = [side |-> "A", key |-> a_next]],
          a |-> 0, b |-> b_next]
    ELSE [st |-> st, a |-> a_next, b |-> b_next]

\* MergeIter::nexts
nexts(st) ==
    IF st.peeked.side = "A"
    THEN nexts_peek([st EXCEPT !.peeked = [side |-> "None", key |-> 0],
                               !.b = Rest(@)],
                    st.peeked.key, Pop(st.b))
    ELSE IF st.peeked.side = "B"
    THEN nexts_peek([st EXCEPT !.peeked = [side |-> "None", key |-> 0],
                               !.a = Rest(@)],
                    Pop(st.a), st.peeked.key)
    ELSE nexts_peek([st EXCEPT !.a = Rest(@), !.b = Rest(@)],
                    Pop(st.a), Pop(st.b))

\* Union::next
union_next(r) == [st |-> r.st, out |-> IF r.a # 0 THEN r.a ELSE r.b]

\* SymmetricDifference::next
RECURSIVE symmetric_difference_next(_)
symmetric_difference_next(r) ==
    IF r.a # 0 /\ r.b # 0 THEN symmetric_difference_next(nexts(r.st))
    ELSE union_next(r)

SetOps == {"difference", "intersection", "union", "symmetric_difference"}

\* the operation o of the set a with the set b, and next on what it returns
set_new(h, o, a, b) ==
    IF o = "difference" THEN difference(h, a, b)
    ELSE IF o = "intersection" THEN intersection(h, a, b)
    ELSE merge_new(h, a, b)

set_next(h, o, st) ==
    IF o = "difference" THEN difference_next(h, st)
    ELSE IF o = "intersection" THEN intersection_next(h, st)
    ELSE IF o = "union" THEN union_next(nexts(st))
    ELSE symmetric_difference_next(nexts(st))

\* .cloned().collect::<Vec<_>>(): next until it returns None
RECURSIVE cloned(_, _, _, _), cloned_step(_, _, _, _)
cloned(h, o, st, acc) == cloned_step(h, o, set_next(h, o, st), acc)

cloned_step(h, o, r, acc) ==
    IF r.out = 0 THEN acc ELSE cloned(h, o, r.st, Append(acc, r.out))

\* a walk to the least or to the greatest element, or a walk of an
\* iterator over one of the sets, never returns
set_hangs(h, a, b) ==
    \/ into_hangs(h, a.root)
    \/ into_hangs(h, b.root)
    \/ collect(h, iter(h, a.root, a.len), <<>>, LoopFuel).hang
    \/ collect(h, iter(h, b.root, b.len), <<>>, LoopFuel).hang

\* a.difference(&b), a.intersection(&b), a.union(&b) or
\* a.symmetric_difference(&b), collected; a is the first map and b the
\* second, as maps to ()
SetOp(o) ==
    /\ Ready
    /\ \E a \in {[root |-> root, len |-> len]} :
       \E b \in {[root |-> other.root, len |-> other.len]} :
          IF set_hangs(heap, a, b)
          THEN status' = "hang" /\ out' = <<>>
          ELSE /\ status' = "ok"
               /\ out' = cloned(heap, o, set_new(heap, o, a, b), <<>>)
    /\ op' = [name |-> o, key |-> 0, value |-> 0]
    /\ ret' = None
    /\ steps' = steps + 1
    /\ UNCHANGED <<heap, root, len, debug, abs, phase, itr, bounds, nav, seen,
                   other, owned>>

\* the first set is built, then the second, then the operations are called
SetStep ==
    \/ \E k \in Keys : phase = "map" /\ Insert(k, 1)
    \/ \E k \in Keys : phase = "map" /\ Remove(k)
    \/ \E k \in Keys : InsertOther(k, 1)
    \/ \E k \in Keys : RemoveOther(k)
    \/ \E o \in SetOps : SetOp(o)

SetSpec == Init /\ [][SetStep]_vars

\* ------------------------------------------------------- rotate, alone
Sides == {"Left", "Right"}

\* tree.rotate(target, pivot_idx) on a node of the tree, the way the tests
\* of the rebalancer call it; it returns pivot, and panics when target
\* has no child on that side
Rotate(t, idx) ==
    /\ Ready
    /\ phase \in {"map", "rotated"}
    /\ t \in Reach(heap, root, MaxNodes)
    /\ \E r \in {rotate(Machine, t, idx)} :
          /\ heap' = r.h
          /\ root' = r.root
          /\ len' = r.len
          /\ status' = r.st
          /\ ret' = IF r.st = "ok"
                    THEN Some(heap[child(heap, t, idx)].key,
                              heap[child(heap, t, idx)].value)
                    ELSE None
    /\ op' = [name |-> "rotate", key |-> heap[t].key, value |-> 0,
              side |-> idx]
    /\ phase' = "rotated"
    /\ steps' = steps + 1
    /\ UNCHANGED <<debug, abs, itr, out, bounds, nav, seen, other, owned>>

\* a tree is built by insertions, then nodes of it are rotated
RotStep ==
    \/ \E k \in Keys, v \in Vals : phase = "map" /\ Insert(k, v)
    \/ \E t \in Ids, idx \in Sides : Rotate(t, idx)

RotSpec == Init /\ [][RotStep]_vars

\* ------------------------------------------------------- a deeper tree
\* keys inserted in ascending order, and the removals that may follow
MaxDeep == 14
MaxShrink == 2

DeepKeys == 1..MaxDeep

\* a new map over a memory with room for MaxDeep nodes
DeepInit ==
    /\ heap = [i \in DeepKeys |-> DeadNode]
    /\ root = Nil
    /\ len = 0
    /\ status = "ok"
    /\ debug \in BOOLEAN
    /\ abs = [k \in DeepKeys |-> 0]
    /\ op = [name |-> "new", key |-> 0, value |-> 0]
    /\ ret = None
    /\ steps = 0
    /\ phase = "map"
    /\ itr = NoIter
    /\ out = <<>>
    /\ bounds = NoBounds
    /\ nav = NoNav
    /\ seen = <<>>
    /\ other = [root |-> Nil, len |-> 0, abs |-> [k \in Keys |-> 0]]
    /\ owned = {}

\* insert(k, 1) of the key after the last one inserted; its node is at
\* address k
Grow(k) ==
    /\ status = "ok"
    /\ phase = "map"
    /\ k = steps + 1
    /\ \E r \in {insert_at(Machine, k, 1, k)} :
          /\ heap' = r.m.h
          /\ root' = r.m.root
          /\ len' = r.m.len
          /\ status' = r.m.st
          /\ ret' = IF r.m.st = "ok" THEN r.ret ELSE None
    /\ op' = [name |-> "insert", key |-> k, value |-> 1]
    /\ abs' = [abs EXCEPT ![k] = 1]
    /\ steps' = steps + 1
    /\ UNCHANGED <<debug, iterVars>>

\* remove(&k), once the insertions are over; out lists the keys of the
\* removals made so far
Shrink(k) ==
    /\ status = "ok"
    /\ Len(out) < MaxShrink
    /\ \E r \in {remove_node(Machine, k)} :
          /\ heap' = r.m.h
          /\ root' = r.m.root
          /\ len' = r.m.len
          /\ status' = r.m.st
          /\ ret' = IF r.m.st = "ok" THEN [r.ret EXCEPT !.key = 0] ELSE None
    /\ op' = [name |-> "remove", key |-> k, value |-> 0]
    /\ abs' = [abs EXCEPT ![k] = 0]
    /\ phase' = "shrunk"
    /\ out' = Append(out, k)
    /\ steps' = steps + 1
    /\ UNCHANGED <<debug, itr, bounds, nav, seen, other, owned>>

DeepStep ==
    \/ \E k \in DeepKeys : Grow(k)
    \/ \E k \in DeepKeys : Shrink(k)

DeepSpec == DeepInit /\ [][DeepStep]_vars

\* ------------------------------------------------------------ properties
\* the abstract finite map as the list of its pairs in ascending key order
RECURSIVE AbsItemsFrom(_)
AbsItemsFrom(k) ==
    IF k > MaxKey THEN <<>>
    ELSE IF abs[k] # 0 THEN <<(<<k, abs[k]>>)>> \o AbsItemsFrom(k + 1)
    ELSE AbsItemsFrom(k + 1)

AbsItems == AbsItemsFrom(1)

AbsSize == Cardinality({k \in Keys : abs[k] # 0})

Nodes == Reach(heap, root, MaxNodes)

Sub(n) == Reach(heap, n, MaxNodes)

\* numbers of black nodes on the paths from n down to a missing child;
\* a path longer than any path of a tree counts as Endless
Endless == MaxNodes + 1

RECURSIVE BlackCounts(_, _, _)
BlackCounts(h, n, fuel) ==
    IF n = Nil THEN {0}
    ELSE IF fuel = 0 THEN {Endless}
    ELSE LET b == IF is_black(h, n) THEN 1 ELSE 0
         IN {IF c = Endless THEN c ELSE b + c :
                 c \in BlackCounts(h, h[n].left, fuel - 1)
                          \cup BlackCounts(h, h[n].right, fuel - 1)}

\* C1: after any sequence of insert and remove calls, what iter() yields
\* is the list of pairs of the abstract map in ascending key order
C1_IterIsAbstractMap ==
    status = "ok" =>
        /\ ~IterItems.hang
        /\ IterItems.items = AbsItems

\* keys, and entries, held by the nodes reachable from the root
KeysIn(h, r) == {h[n].key : n \in Reach(h, r, MaxNodes)}

Contents(h, r) == {<<h[n].key, h[n].value>> : n \in Reach(h, r, MaxNodes)}

\* a call of the named operation has just returned
Returned(name) ==
    /\ op'.name = name
    /\ steps' = steps + 1
    /\ status' = "ok"

\* C2: remove(k) returns Some(v) exactly when k was present before the
\* call, v is then the value last inserted for k and k is absent
\* afterwards; when it returns None the contents and len are unchanged
C2_RemoveReturn ==
    [][Returned("remove") =>
         /\ ret'.some <=> abs[op'.key] # 0
         /\ ret'.some =>
               /\ ret'.value = abs[op'.key]
               /\ op'.key \notin KeysIn(heap', root')
         /\ ~ret'.some =>
               /\ Contents(heap', root') = Contents(heap, root)
               /\ len' = len]_vars

\* C3: insert(k, v) returns None exactly when k was absent before the
\* call; when k was present with value old it returns Some((k, old)), the
\* stored value becomes v and the key set, len, shape and colors stay
C3_InsertReturn ==
    [][Returned("insert") =>
         /\ ~ret'.some <=> abs[op'.key] = 0
         /\ abs[op'.key] # 0 =>
               /\ ret' = Some(op'.key, abs[op'.key])
               /\ len' = len
               /\ root' = root
               /\ \E n \in Nodes :
                     /\ heap[n].key = op'.key
                     /\ heap' = [heap EXCEPT ![n].value = op'.value]]_vars

\* C4: get(k) returns Some(v) exactly when the abstract map holds k -> v
\* and None otherwise, contains_key(k) agrees with it, and neither call
\* changes the tree
C4_GetIsAbstractLookup ==
    [][(Returned("get") \/ Returned("contains_key")) =>
         /\ ret'.some <=> abs[op'.key] # 0
         /\ (op'.name = "get" /\ ret'.some) => ret'.value = abs[op'.key]
         /\ heap' = heap
         /\ root' = root
         /\ len' = len]_vars

\* C5: after every operation the tree is a binary search tree without
\* duplicates: left subtree keys below the node key, right ones above
C5_BST ==
    status = "ok" =>
        \A n \in Nodes :
            /\ \A x \in Sub(heap[n].left) : heap[x].key < heap[n].key
            /\ \A x \in Sub(heap[n].right) : heap[x].key > heap[n].key

\* C6: after every operation no red node has a red child
C6_NoRedRed ==
    status = "ok" =>
        \A n \in Nodes : is_red(heap, n) =>
            /\ heap[n].left # Nil => is_black(heap, heap[n].left)
            /\ heap[n].right # Nil => is_black(heap, heap[n].right)

\* C7: after every operation all paths from a node down to a missing
\* child pass through the same number of black nodes
C7_BlackHeight ==
    status = "ok" =>
        \A n \in Nodes :
            /\ Cardinality(BlackCounts(heap, n, MaxNodes)) = 1
            /\ Endless \notin BlackCounts(heap, n, MaxNodes)

\* C8: after every operation every non-root node reachable from the root
\* has a parent pointer to a live node exactly one of whose child slots
\* points back to it
C8_BackPointers ==
    status = "ok" =>
        \A n \in Nodes \ {root} :
            /\ heap[n].alive
            /\ heap[n].parent # Nil
            /\ heap[n].parent # n
            /\ heap[heap[n].parent].alive
            /\ (heap[heap[n].parent].left = n)
                   # (heap[heap[n].parent].right = n)

\* C9: after every operation the root handle is set exactly when the map
\* holds an entry, and the root node has no parent
C9_RootMarker ==
    status = "ok" =>
        /\ (root # Nil) <=> (AbsSize > 0)
        /\ root # Nil => heap[root].parent = Nil

\* C10: after every operation len() is the number of nodes reachable
\* from the root
C10_LenIsNodeCount ==
    status = "ok" => len = Cardinality(Nodes)

\* number of nodes on the longest path from n down to a missing child;
\* a path that never ends counts as Endless
RECURSIVE Height(_, _, _)
Height(h, n, fuel) ==
    IF n = Nil THEN 0
    ELSE IF fuel = 0 THEN Endless
    ELSE LET l == Height(h, h[n].left, fuel - 1)
             r == Height(h, h[n].right, fuel - 1)
         IN IF l = Endless \/ r = Endless THEN Endless
            ELSE 1 + (IF l > r THEN l ELSE r)

\* C11: after every operation the height of the tree is at most
\* 2 * log2(len + 1), that is 2^height <= (len + 1)^2
C11_HeightBound ==
    status = "ok" =>
        /\ Height(heap, root, MaxNodes) # Endless
        /\ 2 ^ Height(heap, root, MaxNodes) <= (len + 1) * (len + 1)

\* the entry of the abstract map with key k, as an iterator yields it
AbsEntry(k) == Some(k, abs[k])

\* keys of the abstract map that the first i - 1 iterator calls have not
\* yielded
Remaining(i) ==
    {k \in Keys : abs[k] # 0}
        \ {out[j].item.key : j \in {x \in 1..(i - 1) : out[x].item.some}}

Least(S) == CHOOSE k \in S : \A x \in S : k <= x

Greatest(S) == CHOOSE k \in S : \A x \in S : k >= x

\* every call made on the iterator so far was next (back = FALSE) or
\* next_back (back = TRUE), and the last of them has returned or hangs
OnlyCalls(back) ==
    /\ phase = "iter"
    /\ op.name \in {"iter", IF back THEN "next_back" ELSE "next"}
    /\ \A i \in 1..Len(out) : out[i].back = back

\* C12: repeated next() on iter() of a map with n entries yields the n
\* entries in strictly ascending key order, each once, and then None
C12_NextAscending ==
    OnlyCalls(FALSE) =>
        /\ status = "ok"
        /\ \A i \in 1..Len(out) :
              out[i].item = IF i <= AbsSize
                            THEN Some(AbsItems[i][1], AbsItems[i][2])
                            ELSE None

\* C13: repeated next_back() on iter() of a map with n entries yields the
\* n entries in strictly descending key order, each once, and then None
C13_NextBackDescending ==
    OnlyCalls(TRUE) =>
        /\ status = "ok"
        /\ \A i \in 1..Len(out) :
              out[i].item = IF i <= AbsSize
                            THEN Some(AbsItems[AbsSize + 1 - i][1],
                                      AbsItems[AbsSize + 1 - i][2])
                            ELSE None

\* C14: for any interleaving of next() and next_back() on one iterator
\* over n entries, each of the first n calls yields the smallest (next) or
\* the largest (next_back) entry not yet yielded, and later calls None
C14_DoubleEnded ==
    phase = "iter" =>
        /\ status = "ok"
        /\ \A i \in 1..Len(out) :
              IF i > AbsSize THEN out[i].item = None
              ELSE /\ Remaining(i) # {}
                   /\ out[i].item =
                         AbsEntry(IF out[i].back
                                  THEN Greatest(Remaining(i))
                                  ELSE Least(Remaining(i)))

\* a key satisfies both bounds given to range
InRange(k) ==
    /\ bounds.lo.kind = "Included" => bounds.lo.key <= k
    /\ bounds.lo.kind = "Excluded" => bounds.lo.key < k
    /\ bounds.hi.kind = "Included" => k <= bounds.hi.key
    /\ bounds.hi.kind = "Excluded" => k < bounds.hi.key

\* the entries of the abstract map within the bounds, ascending
RangeItems == SelectSeq(AbsItems, LAMBDA e : InRange(e[1]))

\* C15: the calls of next() on range(bounds) yield the entries whose keys
\* satisfy both bounds, each once, in ascending key order, and then None
C15_RangeYields ==
    phase = "range" =>
        /\ status = "ok"
        /\ \A i \in 1..Len(out) :
              out[i].item = IF i <= Len(RangeItems)
                            THEN Some(RangeItems[i][1], RangeItems[i][2])
                            ELSE None

\* the entries a log of calls of the predicate answers res for, in the
\* order of the calls
Answered(log, res) ==
    [i \in 1..Len(SelectSeq(log, LAMBDA c : c.res = res)) |->
        Some(SelectSeq(log, LAMBDA c : c.res = res)[i].key,
             SelectSeq(log, LAMBDA c : c.res = res)[i].value)]

\* what the calls of next() yielded before they returned None
Yielded(o) ==
    [i \in 1..Len(SelectSeq(o, LAMBDA y : y.item.some)) |->
        SelectSeq(o, LAMBDA y : y.item.some)[i].item]

\* the calls of next() came to the end: the last of them returned None
Consumed(o) == Len(o) > 0 /\ ~o[Len(o)].item.some

\* the predicate was called on every entry of the abstract map, once, in
\* ascending key order
EveryEntry(log) ==
    /\ Len(log) = AbsSize
    /\ \A i \in 1..Len(log) :
          /\ log[i].key = AbsItems[i][1]
          /\ log[i].value = AbsItems[i][2]

\* the map holds exactly the entries the predicate returned false for
Kept(h, r, n, log) ==
    /\ Contents(h, r) = {<<c.key, c.value>> : c \in
                            {log[i] : i \in {j \in 1..Len(log) :
                                                log[j].res # "true"}}}
    /\ n = Cardinality({j \in 1..Len(log) : log[j].res # "true"})

\* C16: a DrainFilter consumed to the end and then dropped has called the
\* predicate on every entry, has yielded the entries the predicate
\* returned true for in ascending key order, and leaves in the map exactly
\* the entries it returned false for
C16_DrainFilter ==
    [][(op'.name = "drop" /\ Consumed(out')
        /\ \A i \in 1..Len(seen') : seen'[i].res # "panic") =>
           /\ status' = "ok"
           /\ EveryEntry(seen')
           /\ Yielded(out') = Answered(seen', "true")
           /\ Kept(heap', root', len', seen')]_vars

\* C17: a DrainFilter dropped after any number of calls of next() has
\* called the predicate on every entry, and after the drop the map holds
\* exactly the entries the predicate returned false for
C17_EarlyDrop ==
    [][(op'.name = "drop"
        /\ \A i \in 1..Len(seen') : seen'[i].res # "panic") =>
           /\ status' = "ok"
           /\ EveryEntry(seen')
           /\ Kept(heap', root', len', seen')]_vars

\* the calls of the predicate that panicked
Panicked == {i \in 1..Len(seen) : seen[i].res = "panic"}

\* the DrainFilter is gone, by a drop that returned or by one that the
\* panic of the predicate left
Dropped == phase = "map" /\ op.name \in {"drop", "drop_panic"}

\* C18: an entry the predicate panicked on is not yielded, it is in the map
\* once the DrainFilter is dropped, and the map then satisfies the six
\* invariants of the data model
C18_PredPanic ==
    (Dropped /\ Panicked # {}) =>
        /\ status = "ok"
        /\ \A i \in Panicked :
              /\ \A j \in 1..Len(out) :
                    out[j].item # Some(seen[i].key, seen[i].value)
              /\ <<seen[i].key, seen[i].value>> \in Contents(heap, root)
        /\ C5_BST /\ C6_NoRedRed /\ C7_BlackHeight
        /\ C8_BackPointers /\ C9_RootMarker /\ C10_LenIsNodeCount

\* the nodes of the map whose entry a call of next() has moved out
MovedFrom ==
    {n \in Nodes : \E i \in 1..Len(seen) :
                      seen[i].res = "true" /\ seen[i].key = heap[n].key}

\* C19: once a DrainFilter is forgotten, after any number of calls of
\* next(), the map satisfies the six invariants of the data model and
\* reaches no freed node and no node whose entry was moved out
C19_Leak ==
    op.name = "forget" =>
        /\ status = "ok"
        /\ C5_BST /\ C6_NoRedRed /\ C7_BlackHeight
        /\ C8_BackPointers /\ C9_RootMarker /\ C10_LenIsNodeCount
        /\ \A n \in Nodes : heap[n].alive
        /\ MovedFrom = {}

\* a DrainFilter forgotten after a call of next() that yielded an entry
\* and before the predicate was called on every entry
C19_Witness ==
    /\ op.name = "forget"
    /\ \E i \in 1..Len(seen) : seen[i].res = "true"
    /\ \E k \in Keys : \A i \in 1..Len(seen) : seen[i].key # k
    /\ \E n \in Ids : heap[n].alive /\ heap[n].left # Nil /\ heap[n].right # Nil

\* C20: after a.append(&mut b), b is empty and a holds the entries of both
\* maps, with the value of b for a key of both, and len(a) is their number
C20_Append ==
    op.name = "append" =>
        /\ status = "ok"
        /\ other.root = Nil
        /\ other.len = 0
        /\ Contents(heap, root) = {<<AbsItems[i][1], AbsItems[i][2]>> :
                                      i \in 1..AbsSize}
        /\ len = AbsSize

\* C21: the map collected from m.into_iter() equals m: the same entries
\* and the same len
C21_IntoIterCollect ==
    [][op'.name = "collect" /\ status' = "ok"
       => /\ Contents(heap', root') = Contents(heap, root)
          /\ len' = len]_vars

\* C22: for a key k that m does not hold, insert(k, v) followed by
\* remove(k) leaves m with the same entries and the same len
C22_InsertRemove ==
    [][op'.name = "insert_remove" /\ status' = "ok"
       => /\ Contents(heap', root') = Contents(heap, root)
          /\ len' = len]_vars

\* C23: once the IntoIter is dropped, however much of it was consumed and
\* from whichever end, every node of the map it took is deallocated, and
\* no call on it touches a node that was freed before
C23_IntoIterFrees ==
    /\ phase \in {"into", "dropped"} => status # "ub"
    /\ phase = "dropped" /\ status = "ok" => \A n \in owned : ~heap[n].alive

\* the calls that look a key up or remove it
Lookups == {"get", "get_mut", "get_key_value", "remove", "remove_entry"}

\* C24: a lookup or a removal of a key that the map does not hold, on an
\* empty map and on a map emptied by the removal of its last entry too,
\* returns None and does not panic
C24_AbsentIsNone ==
    [][op'.name \in Lookups /\ abs[op'.key] = 0
       => status' = "ok" /\ ~ret'.some]_vars

\* the elements of a set of keys in ascending order
Sorted(S) ==
    [i \in 1..Cardinality(S) |->
        CHOOSE k \in S : Cardinality({j \in S : j < k}) = i - 1]

\* the sets that the two maps are expected to be
ElemsA == {k \in Keys : abs[k] # 0}

ElemsB == {k \in Keys : other.abs[k] # 0}

\* the result that the operation o has in mathematics
Expected(o) ==
    IF o = "difference" THEN ElemsA \ ElemsB
    ELSE IF o = "intersection" THEN ElemsA \cap ElemsB
    ELSE IF o = "union" THEN ElemsA \cup ElemsB
    ELSE (ElemsA \ ElemsB) \cup (ElemsB \ ElemsA)

\* C25: difference, intersection, union and symmetric_difference of two
\* sets yield the elements of the mathematical result, once each, in
\* ascending order
C25_SetOperations ==
    op.name \in SetOps /\ status = "ok" => out = Sorted(Expected(op.name))

\* the node that holds key k in the tree under r, or Nil
Holder(h, r, k) ==
    IF r = Nil THEN Nil
    ELSE IF search(h, r, k, Fuel).res = "found"
    THEN search(h, r, k, Fuel).node ELSE Nil

\* from the tree (h, r) to the tree (h2, r2), m has taken the place of n:
\* n's slot, n's color, n's right subtree, n's left subtree without m,
\* and m's left subtree where m was
Replaced(h, r, h2, r2, n, m) ==
    /\ IF h[n].parent = Nil
       THEN r2 = m /\ h2[m].parent = Nil
       ELSE /\ h2[m].parent = h[n].parent
            /\ child(h2, h[n].parent, index_on_parent(h, n)) = m
    /\ h2[m].color = h[n].color
    /\ h2[m].right = h[n].right
    /\ h2[h[n].right].parent = m
    /\ IF m = h[n].left
       THEN /\ h2[m].left = h[m].left
            /\ h[m].left # Nil => h2[h[m].left].parent = m
       ELSE /\ h2[m].left = h[n].left
            /\ h2[h[n].left].parent = m
            /\ h2[h[m].parent].right = h[m].left
            /\ h[m].left # Nil => h2[h[m].left].parent = h[m].parent

\* n has two children and its in-order predecessor is red or has a child:
\* the removal of n needs no rebalancing after the replacement
PlainReplacement(h, n) ==
    /\ h[n].left # Nil
    /\ h[n].right # Nil
    /\ max_child(h, h[n].left, Fuel) # Nil
    /\ \/ is_red(h, max_child(h, h[n].left, Fuel))
       \/ h[max_child(h, h[n].left, Fuel)].left # Nil

\* C26: remove of a node n with two children puts its in-order
\* predecessor m in n's place: under n's parent or as root, with n's
\* color, over n's right subtree and n's left subtree without m, and
\* m's left subtree is where m was, also when m is n's left child
C26_PredecessorReplaces ==
    [][\A n \in Ids :
          /\ op'.name = "remove"
          /\ status' = "ok"
          /\ n = Holder(heap, root, op'.key)
          /\ PlainReplacement(heap, n)
          => Replaced(heap, root, heap', root', n,
                      max_child(heap, heap[n].left, Fuel))]_vars

\* C28: insert into an empty map makes the new node the root, colors it
\* Black and sets len to 1
C28_FirstNodeIsBlack ==
    [][op'.name = "insert" /\ root = Nil /\ len = 0 /\ status' = "ok"
       => /\ root' # Nil
          /\ heap'[root'].key = op'.key
          /\ heap'[root'].color = "Black"
          /\ len' = 1]_vars

\* the keys of the tree under n from left to right
RECURSIVE InOrder(_, _, _)
InOrder(h, n, fuel) ==
    IF n = Nil \/ fuel = 0 THEN <<>>
    ELSE InOrder(h, h[n].left, fuel - 1) \o <<h[n].key>>
         \o InOrder(h, h[n].right, fuel - 1)

\* the root has no parent and every child names its parent
LinksMatch(h, r) ==
    /\ r # Nil => h[r].parent = Nil
    /\ \A n \in Reach(h, r, MaxNodes) :
          /\ h[n].left # Nil => h[h[n].left].parent = n
          /\ h[n].right # Nil => h[h[n].right].parent = n

\* from the tree (h, r) to the tree (h2, r2), target was rotated with its
\* child pivot on that side
Rotated(h, r, h2, r2, target, side, pivot) ==
    /\ child(h2, target, side) = child(h, pivot, Not(side))
    /\ child(h2, pivot, Not(side)) = target
    /\ IF h[target].parent = Nil
       THEN r2 = pivot /\ h2[pivot].parent = Nil
       ELSE /\ r2 = r
            /\ h2[pivot].parent = h[target].parent
            /\ child(h2, h[target].parent, index_on_parent(h, target)) = pivot
    /\ LinksMatch(h2, r2)
    /\ \A n \in Ids : h2[n].color = h[n].color
    /\ InOrder(h2, r2, Fuel) = InOrder(h, r, Fuel)

\* C29: rotate(target, side) with pivot = target.child(side) and be_moved
\* = pivot.child(opposite side) ends with be_moved as target's child on
\* that side, target as pivot's child on the opposite side, pivot in
\* target's former slot or as the root without a parent, every parent
\* link matching its child link, no color changed and the keys in the
\* same order from left to right, and it returns pivot
C29_Rotate ==
    [][\A t \in Ids, idx \in Sides :
          /\ op'.name = "rotate"
          /\ status' = "ok"
          /\ op'.side = idx
          /\ heap[t].alive
          /\ heap[t].key = op'.key
          => /\ Rotated(heap, root, heap', root', t, idx,
                        child(heap, t, idx))
             /\ ret' = Some(heap[child(heap, t, idx)].key,
                            heap[child(heap, t, idx)].value)]_vars

\* a rotation has returned whose target was not the root and whose pivot
\* had a child to hand over
C29_Witness ==
    /\ op.name = "rotate"
    /\ status = "ok"
    /\ \E t \in Ids :
          /\ heap[t].alive
          /\ heap[t].key = op.key
          /\ child(heap, t, op.side) # Nil
          /\ heap[t].parent # Nil
          /\ heap[heap[t].parent].parent # Nil

\* key k is not in the tree (h, r), and the node it is inserted under is
\* red, has a parent, and has a sibling that is black or no sibling
RedParentBlackUncle(h, r, k) ==
    /\ r # Nil
    /\ search(h, r, k, Fuel).res = "vacant"
    /\ is_red(h, search(h, r, k, Fuel).node)
    /\ parent(h, search(h, r, k, Fuel).node) # Nil
    /\ \/ sibling(h, search(h, r, k, Fuel).node) = Nil
       \/ is_black(h, sibling(h, search(h, r, k, Fuel).node))

\* what holds g's former position in the tree (h2, r2)
InPlaceOf(h, h2, r2, g) ==
    IF h[g].parent = Nil THEN r2
    ELSE child(h2, h[g].parent, index_on_parent(h, g))

\* from the tree (h, r) to the tree (h2, r2), node z was inserted on side
\* idx of the red node p, whose parent g was rotated down: a Black node,
\* p or z, is where g was, g is its Red child on the side of p's sibling,
\* and no node outside g's subtree has changed but for the link to g
Fixed(h, r, h2, r2, z, idx, p, g, top) ==
    /\ top = IF index_on_parent(h, p) = idx THEN p ELSE z
    /\ is_black(h2, top)
    /\ h2[top].parent = h[g].parent
    /\ child(h2, top, Not(index_on_parent(h, p))) = g
    /\ h2[g].parent = top
    /\ is_red(h2, g)
    /\ child(h2, g, Not(index_on_parent(h, p))) = sibling(h, p)
    /\ h[g].parent # Nil => r2 = r
    /\ \A n \in Ids \ (Reach(h, g, MaxNodes) \cup {z}) :
          /\ h2[n].alive = h[n].alive
          /\ h2[n].color = h[n].color
          /\ h2[n].parent = h[n].parent
          /\ n # h[g].parent \/ index_on_parent(h, g) # "Left"
             => h2[n].left = h[n].left
          /\ n # h[g].parent \/ index_on_parent(h, g) # "Right"
             => h2[n].right = h[n].right

\* C30: when the node z that insert has linked has a red parent and a
\* black or absent uncle, the node that ends in the grandparent's former
\* position, z's parent after one rotation or z after two, is Black, the
\* former grandparent is its Red child on the uncle's side, and no node
\* above that position is changed
C30_RedParentBlackUncle ==
    [][\A z \in Ids :
          /\ op'.name = "insert"
          /\ status' = "ok"
          /\ RedParentBlackUncle(heap, root, op'.key)
          /\ ~heap[z].alive
          /\ heap'[z].alive
          => Fixed(heap, root, heap', root', z,
                   search(heap, root, op'.key, Fuel).idx,
                   search(heap, root, op'.key, Fuel).node,
                   parent(heap, search(heap, root, op'.key, Fuel).node),
                   InPlaceOf(heap, heap', root',
                       parent(heap, search(heap, root, op'.key, Fuel).node)))
    ]_vars

\* an insert has returned, and the node it made is Black between two
\* children under a parent: it went up by two rotations, and the
\* grandparent it replaced was not the root
C30_Witness ==
    /\ op.name = "insert"
    /\ status = "ok"
    /\ phase = "map"
    /\ ~ret.some
    /\ \E z \in Ids :
          /\ heap[z].alive
          /\ heap[z].key = op.key
          /\ is_black(heap, z)
          /\ heap[z].parent # Nil
          /\ heap[z].left # Nil
          /\ heap[z].right # Nil

\* every path from the root down to a missing child has the same number
\* of black nodes, and the links of the tree match
Balanced(h, r) ==
    /\ Cardinality(BlackCounts(h, r, Fuel)) = 1
    /\ Endless \notin BlackCounts(h, r, Fuel)
    /\ LinksMatch(h, r)

\* n is a black leaf under a black parent, next to a black sibling whose
\* children are black or missing: its removal colors the sibling Red and
\* hands the missing black level to the parent
AllBlack(h, n) ==
    /\ is_black(h, n)
    /\ h[n].left = Nil
    /\ h[n].right = Nil
    /\ parent(h, n) # Nil
    /\ is_black(h, parent(h, n))
    /\ sibling(h, n) # Nil
    /\ is_black(h, sibling(h, n))
    /\ \A c \in {h[sibling(h, n)].left, h[sibling(h, n)].right} :
          c = Nil \/ is_black(h, c)

\* C27: when the removed node's parent, sibling and nephews are all
\* black, the sibling is colored Red and the rebalancing goes on from the
\* parent, with the side, the sibling and the nephews of the parent, or
\* stops if the parent is the root: the call returns, the sibling stays
\* Red, and every path of the tree has lost the same black level
C27_AllBlackMovesUp ==
    [][\A n \in DeepKeys :
          /\ op'.name = "remove"
          /\ Balanced(heap, root)
          /\ n = Holder(heap, root, op'.key)
          /\ AllBlack(heap, n)
          => /\ status' = "ok"
             /\ is_red(heap', sibling(heap, n))
             /\ Balanced(heap', root')]_vars

\* f is a black node without a red sibling's help: it is not the root and
\* its sibling is red
RedSibling(h, f) ==
    /\ parent(h, f) # Nil
    /\ sibling(h, f) # Nil
    /\ is_red(h, sibling(h, f))

\* from the tree (h, r) to the tree (h2, r2), the red sibling of f went
\* up into the place of f's parent and is Black there
SiblingUp(h, r, h2, r2, f) ==
    /\ InPlaceOf(h, h2, r2, parent(h, f)) = sibling(h, f)
    /\ h2[sibling(h, f)].parent = h[parent(h, f)].parent
    /\ is_black(h2, sibling(h, f))
    /\ Balanced(h2, r2)

\* C31: when the sibling of the node that the rebalancing of a removal
\* is at is red, the sibling is rotated up into the parent's place and
\* ends Black, and the rebalancing goes on below it with the former
\* close nephew as the sibling; the node is the removed black leaf in
\* the first round, and its parent after a round in which the parent,
\* the sibling and the nephews were all black
C31_RedSiblingGoesUp ==
    [][\A n \in DeepKeys :
          /\ op'.name = "remove"
          /\ Balanced(heap, root)
          /\ n = Holder(heap, root, op'.key)
          /\ is_black(heap, n)
          /\ heap[n].left = Nil
          /\ heap[n].right = Nil
          => /\ RedSibling(heap, n)
                => status' = "ok" /\ SiblingUp(heap, root, heap', root', n)
             /\ AllBlack(heap, n) /\ RedSibling(heap, parent(heap, n))
                => /\ status' = "ok"
                   /\ SiblingUp(heap, root, heap', root', parent(heap, n))
    ]_vars

\* the machine in which remove_node excises the node n it has found: len
\* is decremented and, when n had two children, the predecessor has been
\* put in its place
BeforeExcision(m, n) ==
    IF m.h[n].left # Nil /\ m.h[n].right # Nil
    THEN replace_with_max_in_left(dec_len(m), n)
    ELSE dec_len(m)

\* what the excision of n relies on: a red n has no children, a child of
\* a black n is its only child and a red leaf, and a black n without
\* children, which is handed to balance_after_remove, is not the root
Excisable(h, n) ==
    /\ is_red(h, n) => h[n].left = Nil /\ h[n].right = Nil
    /\ h[n].left = Nil \/ h[n].right = Nil
    /\ \A c \in {h[n].left, h[n].right} \ {Nil} :
          is_red(h, c) /\ h[c].left = Nil /\ h[c].right = Nil
    /\ is_black(h, n) /\ h[n].left = Nil /\ h[n].right = Nil
       => parent(h, n) # Nil

\* C32: the node that remove excises, after the predecessor has taken its
\* place, is red without children, or black with at most one child that
\* is a red leaf, and the rebalancing is called only on a black node
\* without children that is not the root: no debug assertion of the
\* removal fires
C32_ExcisedNodeShape ==
    [][\A n \in Ids :
          /\ op'.name = "remove"
          /\ n = Holder(heap, root, op'.key)
          /\ ~(n = root /\ heap[n].left = Nil /\ heap[n].right = Nil)
          => /\ debug => status' # "panic"
             /\ BeforeExcision(Machine, n).st = "ok"
                => Excisable(BeforeExcision(Machine, n).h, n)]_vars

\* the descent of insert or remove for key k, or the walk of remove to
\* the predecessor of the node that holds k, never ends on the tree (h, r)
DescentHangs(h, r, k) ==
    /\ r # Nil
    /\ \/ search(h, r, k, Fuel).res = "hang"
       \/ /\ search(h, r, k, Fuel).res = "found"
          /\ h[search(h, r, k, Fuel).node].left # Nil
          /\ h[search(h, r, k, Fuel).node].right # Nil
          /\ max_child(h, h[search(h, r, k, Fuel).node].left, Fuel) = Nil

\* the tree in which insert has linked the new node n for key k
Linked(m, k, n) ==
    set_child(new(m, n, k, 1), search(m.h, m.root, k, Fuel).node,
              search(m.h, m.root, k, Fuel).idx, n)

\* the rebalancing after the insertion of k ends within as many rounds
\* as the tree with the new node is high
InsertRounds(m, k, n) ==
    m.root # Nil /\ search(m.h, m.root, k, Fuel).res = "vacant"
    => balance_after_insert(Linked(m, k, n), n,
                            Height(m.h, m.root, Fuel) + 1).st # "hang"

\* the rebalancing after the removal of the node n ends within as many
\* rounds as the tree is high
RemoveRounds(m, n) ==
    /\ BeforeExcision(m, n).st = "ok"
    /\ is_black(BeforeExcision(m, n).h, n)
    /\ BeforeExcision(m, n).h[n].left = Nil
    /\ BeforeExcision(m, n).h[n].right = Nil
    /\ parent(BeforeExcision(m, n).h, n) # Nil
    => bar_start(BeforeExcision(m, n), n, Height(m.h, m.root, Fuel)).st
          # "hang"

Tested(log) == {<<log[i].key, log[i].value>> : i \in 1..Len(log)}

\* the calls of the predicate went by strictly ascending key
Ascending(log) ==
    \A i \in 1..Len(log) : \A j \in 1..Len(log) :
        i < j => log[i].key < log[j].key

\* the entries of the map a DrainFilter was made on: those of the tree it
\* holds, those still in the map, and those it has yielded
Held ==
    Contents(heap, nav.root) \cup Contents(heap, root)
        \cup {<<out[i].item.key, out[i].item.value>> :
                 i \in {j \in 1..Len(out) : out[j].item.some}}

\* C34: over the calls of next() and the drop of one drain_filter, the
\* predicate is called exactly once on every entry of the map the
\* DrainFilter was made on, in strictly ascending key order
C34_PredOncePerEntry ==
    [][op'.name = "drop" =>
          /\ status' \notin {"hang", "ub"}
          /\ Ascending(seen')
          /\ Tested(seen') = Held]_vars

\* the entries the predicate returned true for: the calls of next(), and
\* the drop after them, yielded these
TrueFor(log) ==
    {<<log[i].key, log[i].value>> :
        i \in {j \in 1..Len(log) : log[j].res = "true"}}

\* C35: while a DrainFilter is alive the root slot of its map is empty;
\* when its drop has returned, the root slot holds the tree the DrainFilter
\* took, with exactly the entries that were not yielded, and len is their
\* number
C35_RootDetached ==
    [][/\ phase' = "drain" => root' = Nil
       /\ op'.name = "drop" =>
             /\ status' = "ok"
             /\ Contents(heap', root') =
                    Contents(heap, nav.root) \ TrueFor(seen')
             /\ len' = Cardinality(Contents(heap', root'))
             /\ root' \in {Nil} \cup Reach(heap, nav.root, MaxNodes)]_vars

\* the nodes that are allocated
Allocated(h) == {n \in Ids : h[n].alive}

\* the nodes whose entry the predicate returned true for
Recorded(h, r, log) ==
    {n \in Reach(h, r, MaxNodes) : <<h[n].key, h[n].value>> \in TrueFor(log)}

\* a call of next() that yields an entry records the node of that entry
\* and nothing else; any other call records nothing
RecordsYielded(before, after, y) ==
    IF y.some
    THEN /\ Len(after) = Len(before) + 1
         /\ SubSeq(after, 1, Len(before)) = before
         /\ heap[after[Len(after)]].key = y.key
         /\ after[Len(after)] \in Reach(heap, nav.root, MaxNodes)
    ELSE after = before

C37_EmptyRange ==
    (phase = "range" /\ \A k \in KeysIn(heap, root) : ~InRange(k)) =>
        \A i \in 1..Len(out) : out[i].item = None

\* the key is the key of an Excluded bound of the range
AtExcluded(k) ==
    \/ bounds.lo.kind = "Excluded" /\ bounds.lo.key = k
    \/ bounds.hi.kind = "Excluded" /\ bounds.hi.key = k

\* C38: no call of next() on a range yields an entry whose key is the key
\* of an Excluded start bound or of an Excluded end bound
C38_ExcludedBound ==
    phase = "range" =>
        \A i \in 1..Len(out) :
            out[i].item.some => ~AtExcluded(out[i].item.key)

============================================================================
